---- MODULE Spec2Model ----
(***************************************************************************)
(* Model of the DacESP32 library (src/src/DacESP32.h, src/src/DacESP32.cpp):*)
(* the class-wide channel locks and object counter, the per-object output  *)
(* mode (oneshot / cosine driver handles and cached configuration) and the *)
(* frequency search calcFrequSettings.                                     *)
(***************************************************************************)
EXTENDS Integers, Sequences, FiniteSets, TLC

(***************************************************************************)
(* Program constants.                                                      *)
(***************************************************************************)
CK8M == 8000000
CK8M_DIV_MAX == 7
SW_FSTEP_MAX == 256
DAC_CHAN_MAX == 2
DAC_CW_OFFSET_DEFAULT == 0
\* CHANNEL_VOLTAGE_MAX 3.30, in millivolt
CHANNEL_VOLTAGE_MAX_MV == 3300
\* FREQUENCY_CHECK: frequencies below this value are rejected by the callers
FREQUENCY_MIN == 16
\* outputCW: below this frequency CK8M_DIV_SEL is forced to CK8M_DIV_MAX
\* before the cosine channel is registered
DRIVER_FMIN == 130
\* the divisor 65536UL of the step size
PHASE_ACC == 65536

(***************************************************************************)
(* IEEE-754 single precision, as far as calcFrequSettings uses it.  A      *)
(* positive float is the pair [m, k] standing for m / 2^k, m <= 2^24.     *)
(* Products that exceed 31 bits are computed in two 12-bit limbs.          *)
(***************************************************************************)
RECURSIVE Pow2(_)
Pow2(n) == IF n <= 0 THEN 1 ELSE 2 * Pow2(n - 1)

\* number of bits of n > 0 (1 for n = 1)
RECURSIVE BitLen(_)
BitLen(n) == IF n <= 1 THEN 1 ELSE 1 + BitLen(n \div 2)

\* round-to-nearest-even of (q + r/d) to an integer, 0 <= r < d
RoundNearestEven(q, r, d) ==
  IF 2 * r > d \/ (2 * r = d /\ q % 2 = 1) THEN q + 1 ELSE q

\* n more quotient bits of r / d by long division, appended to q
RECURSIVE LongDiv(_, _, _, _)
LongDiv(q, r, d, n) ==
  IF n = 0 THEN [q |-> q, r |-> r]
  ELSE IF 2 * r >= d THEN LongDiv(2 * q + 1, 2 * r - d, d, n - 1)
  ELSE LongDiv(2 * q, 2 * r, d, n - 1)

\* the least z with a * 2^z >= b
RECURSIVE ShiftsUpTo(_, _)
ShiftsUpTo(a, b) == IF a >= b THEN 0 ELSE 1 + ShiftsUpTo(2 * a, b)

\* the float nearest to a / b for integers 0 < a, b < 2^25: 24 quotient
\* bits, the rest rounded to nearest even
F32Quot(a, b) ==
  LET z == ShiftsUpTo(a, b)
      n == 24 - BitLen((a * Pow2(z)) \div b)
      d == LongDiv((a * Pow2(z)) \div b, (a * Pow2(z)) % b, b, n)
  IN  [m |-> RoundNearestEven(d.q, d.r, b), k |-> z + n]

\* x / y for two positive floats
F32Div(x, y) ==
  LET q == F32Quot(x.m, y.m) IN [m |-> q.m, k |-> q.k + x.k - y.k]

\* (float)n for an integer 0 < n < 2^24
F32Int(n) == [m |-> n, k |-> 0]

\* (uint32_t)(x * n), (int32_t)(x * n) resp. (uint8_t)(x * n) for a float
\* x >= 0 and an integer 1 <= n < 2^9, where the product is below 2^24:
\* the product rounded to 24 bits, then truncated
F32MulTrunc(x, n) ==
  LET ph  == (x.m \div 4096) * n
      pl  == (x.m % 4096) * n
      hi  == ph + (pl \div 4096)
      lo  == pl % 4096
      s   == BitLen(hi) - 12
      low == (hi % Pow2(s)) * 4096 + lo
      r   == RoundNearestEven((hi \div Pow2(s)) * 4096 + (low \div Pow2(s)),
                              low % Pow2(s), Pow2(s))
  IN  IF hi < 4096
        THEN (hi * 4096 + lo) \div Pow2(x.k)
        ELSE r \div Pow2(x.k - s)

\* stepSizeTemp = (((float)CK8M / (1 + div)) / 65536UL)
StepSize(div) == F32Div(F32Div(F32Int(CK8M), F32Int(1 + div)), F32Int(PHASE_ACC))

\* (uint32_t)(stepSizeTemp * fstep) for every divider and step the search
\* asks for, tabulated once
FcwTable ==
  [div \in 0 .. CK8M_DIV_MAX + 1 |->
     [fstep \in 1 .. SW_FSTEP_MAX |-> F32MulTrunc(StepSize(div), fstep)]]

\* fcw = (uint32_t)(stepSizeTemp * fstep)
Fcw(div, fstep) == FcwTable[div][fstep]

\* deltaAbs = ((float)CK8M / 65536UL) + 1, converted to uint32_t
DeltaStart == F32MulTrunc(F32Div(F32Int(CK8M), F32Int(PHASE_ACC)), 1) + 1

Abs(x) == IF x < 0 THEN -x ELSE x

(***************************************************************************)
(* calcFrequSettings.  The search state is [deltaAbs, clk8mDiv, swfstep]   *)
(* and how the inner loop was left.                                        *)
(* Frequencies stay below 2^31 - DeltaStart, so the uint32_t sums and      *)
(* differences that the code casts to int are the signed values.           *)
(***************************************************************************)
\* variant of the body of the inner loop that breaks as soon as fcw exceeds
\* the target, whatever the deviation reached so far
StepBodyEarlyBreak(frequency, div, fstep, st) ==
  IF st.brk \/ st.done THEN st
  ELSE LET fcw == Fcw(div, fstep)
           dtemp == fcw - frequency
           better == Abs(dtemp) < st.deltaAbs
       IN  IF fcw > frequency
             THEN [st EXCEPT !.brk = TRUE]
             ELSE [deltaAbs |-> IF better THEN Abs(dtemp) ELSE st.deltaAbs,
                   clk8mDiv |-> IF better THEN div ELSE st.clk8mDiv,
                   swfstep  |-> IF better THEN fstep ELSE st.swfstep,
                   brk      |-> FALSE,
                   done     |-> (IF better THEN Abs(dtemp) ELSE st.deltaAbs) = 0]

\* variant of the loop body in which a pair of equal deviation replaces the
\* pair found before
StepBodyAcceptsEqual(frequency, div, fstep, st) ==
  IF st.brk \/ st.done THEN st
  ELSE LET fcw == Fcw(div, fstep)
           dtemp == fcw - frequency
           better == Abs(dtemp) <= st.deltaAbs
       IN  IF fcw > frequency + st.deltaAbs
             THEN [st EXCEPT !.brk = TRUE]
             ELSE [deltaAbs |-> IF better THEN Abs(dtemp) ELSE st.deltaAbs,
                   clk8mDiv |-> IF better THEN div ELSE st.clk8mDiv,
                   swfstep  |-> IF better THEN fstep ELSE st.swfstep,
                   brk      |-> FALSE,
                   done     |-> (IF better THEN Abs(dtemp) ELSE st.deltaAbs) = 0]

\* variant of the loop body that accepts every pair within the start
\* deviation: deltaAbs is never lowered
StepBodyKeepsDelta(frequency, div, fstep, st) ==
  IF st.brk \/ st.done THEN st
  ELSE LET fcw == Fcw(div, fstep)
           dtemp == fcw - frequency
           better == Abs(dtemp) < st.deltaAbs
       IN  IF fcw > frequency + st.deltaAbs
             THEN [st EXCEPT !.brk = TRUE]
             ELSE [deltaAbs |-> st.deltaAbs,
                   clk8mDiv |-> IF better THEN div ELSE st.clk8mDiv,
                   swfstep  |-> IF better THEN fstep ELSE st.swfstep,
                   brk      |-> FALSE,
                   done     |-> FALSE]

\* one pass of the body of the inner loop; brk = the loop was left by
\* break, done = it was left by goto end
StepBody(frequency, div, fstep, st) ==
  IF st.brk \/ st.done THEN st
  ELSE LET fcw == Fcw(div, fstep)
           dtemp == fcw - frequency
           better == Abs(dtemp) < st.deltaAbs
       IN  IF fcw > frequency + st.deltaAbs
             THEN [st EXCEPT !.brk = TRUE]
             ELSE [deltaAbs |-> IF better THEN Abs(dtemp) ELSE st.deltaAbs,
                   clk8mDiv |-> IF better THEN div ELSE st.clk8mDiv,
                   swfstep  |-> IF better THEN fstep ELSE st.swfstep,
                   brk      |-> FALSE,
                   done     |-> (IF better THEN Abs(dtemp) ELSE st.deltaAbs) = 0]

\* F(e), with e evaluated once whatever F does with it
Bind(e, F(_)) == CHOOSE y \in {F(x) : x \in {e}} : TRUE

\* the inner loop: StepBody for fstep = lo, lo + 1, ..., hi in this order
\* (the range is halved to keep the evaluation shallow)
RECURSIVE StepLoop(_, _, _, _, _)
StepLoop(frequency, div, lo, hi, st) ==
  IF lo = hi THEN StepBody(frequency, div, lo, st)
  ELSE Bind(StepLoop(frequency, div, lo, (lo + hi) \div 2, st),
            LAMBDA left :
              IF left.brk \/ left.done THEN left
              ELSE StepLoop(frequency, div, ((lo + hi) \div 2) + 1, hi, left))

\* the break between two dividers: the next divider cannot reach the target
DivBreak(frequency, div, b) ==
  Fcw(div, SW_FSTEP_MAX) < frequency - b.deltaAbs

\* variant of the outer loop that stops before the last divider
RECURSIVE DivLoopStopsEarly(_, _, _)
DivLoopStopsEarly(frequency, div, b) ==
  IF div >= CK8M_DIV_MAX THEN b
  ELSE Bind(StepLoop(frequency, div, 1, SW_FSTEP_MAX, [b EXCEPT !.brk = FALSE]),
            LAMBDA r :
              IF r.done THEN r
              ELSE IF DivBreak(frequency, div + 1, r) THEN r
              ELSE DivLoopStopsEarly(frequency, div + 1, r))

\* variant of the outer loop that goes one divider beyond CK8M_DIV_MAX
RECURSIVE DivLoopOneMore(_, _, _)
DivLoopOneMore(frequency, div, b) ==
  IF div > CK8M_DIV_MAX + 1 THEN b
  ELSE Bind(StepLoop(frequency, div, 1, SW_FSTEP_MAX, [b EXCEPT !.brk = FALSE]),
            LAMBDA r :
              IF r.done \/ div > CK8M_DIV_MAX THEN r
              ELSE IF DivBreak(frequency, div + 1, r) THEN r
              ELSE DivLoopOneMore(frequency, div + 1, r))

\* the outer loop over div, from div on
RECURSIVE DivLoop(_, _, _)
DivLoop(frequency, div, b) ==
  IF div > CK8M_DIV_MAX THEN b
  ELSE Bind(StepLoop(frequency, div, 1, SW_FSTEP_MAX, [b EXCEPT !.brk = FALSE]),
            LAMBDA r :
              IF r.done THEN r
              ELSE IF DivBreak(frequency, div + 1, r) THEN r
              ELSE DivLoop(frequency, div + 1, r))

calcFrequSettings(frequency) ==
  Bind(DivLoop(frequency, 0,
               [deltaAbs |-> DeltaStart, clk8mDiv |-> 0, swfstep |-> 0,
                brk |-> FALSE, done |-> FALSE]),
       LAMBDA b :
         IF b.clk8mDiv = 0 /\ b.swfstep = 0
           THEN [err |-> "ESP_ERR_NOT_SUPPORTED", clkdiv |-> 0, sw_fstep |-> 0]
           ELSE [err |-> "ESP_OK", clkdiv |-> b.clk8mDiv, sw_fstep |-> b.swfstep])

(***************************************************************************)
(* outputVoltage(float): the conversion of a voltage to the 8-bit value.   *)
(* The argument is the float nearest to mv / 1000 Volt.                    *)
(***************************************************************************)
\* (float) CHANNEL_VOLTAGE_MAX, the float nearest to 3.30
VoltageMax == F32Quot(CHANNEL_VOLTAGE_MAX_MV, 1000)

\* a float with its mantissa brought into 2^23 .. 2^24 - 1 (rounding up
\* can leave 2^24)
F32Norm(x) == IF x.m = Pow2(24) THEN [m |-> Pow2(23), k |-> x.k - 1] ELSE x

\* x > y for two positive floats that F32Quot returned
F32Greater(x, y) ==
  LET a == F32Norm(x)
      b == F32Norm(y)
  IN  a.k < b.k \/ (a.k = b.k /\ a.m > b.m)

\* the clamping of outputVoltage(float) and the cast of
\* (voltage / CHANNEL_VOLTAGE_MAX) * 255 to uint8_t
VoltageToValue(mv) ==
  LET voltage == F32Quot(mv, 1000)
      clamped == IF F32Greater(voltage, VoltageMax) THEN VoltageMax ELSE voltage
  IN  IF mv <= 0 THEN 0
      ELSE F32MulTrunc(F32Div(clamped, VoltageMax), 255)

(***************************************************************************)
(* Values of the driver's types.  A handle is either the library's         *)
(* UNDEFINED marker or a handle the driver returned.                       *)
(***************************************************************************)
DAC_CHAN_0 == "DAC_CHAN_0"
DAC_CHAN_1 == "DAC_CHAN_1"
DAC_CHAN_UNDEFINED == "DAC_CHAN_UNDEFINED"
DAC_ONE_HANDLE_UNDEFINED == "UNDEFINED"
DAC_COS_HANDLE_UNDEFINED == "UNDEFINED"
HANDLE == "HANDLE"

\* the four attenuation levels and the two phases the setters accept
AttenLevels == {"DAC_COSINE_ATTEN_DB_0", "DAC_COSINE_ATTEN_DB_6",
                "DAC_COSINE_ATTEN_DB_12", "DAC_COSINE_ATTEN_DB_18"}
PhaseValues == {"DAC_COSINE_PHASE_0", "DAC_COSINE_PHASE_180"}

\* the error a failing driver call returns
DRIVER_ERROR == "ESP_ERR_INVALID_STATE"

\* what the divider and step registers hold before the library writes them
REG_RESET == -1

(***************************************************************************)
(* Inputs of the operations.                                               *)
(***************************************************************************)
\* number of DacESP32 objects that can be alive at once
MaxObjects == 3
\* number of constructor, destructor and method calls of a run
MaxOps == 3

ObjectIds == 1 .. MaxObjects
ChannelArgs == {DAC_CHAN_0, DAC_CHAN_1, DAC_CHAN_UNDEFINED}
ValueArgs == {0, 255}
MilliVoltArgs == {-500, 1000, 5000}
\* below FREQUENCY_MIN, below DRIVER_FMIN, ordinary, above every reachable
\* frequency
FrequencyArgs == {10, 100, 1000, 40000}
AttenArgs == {"DAC_COSINE_ATTEN_DB_0", "DAC_COSINE_ATTEN_DB_18", "ATTEN_OUT_OF_DOMAIN"}
PhaseArgs == {"DAC_COSINE_PHASE_0", "DAC_COSINE_PHASE_180", "PHASE_OUT_OF_DOMAIN"}
OffsetArgs == {DAC_CW_OFFSET_DEFAULT, -128}
\* outputCW(frequency, atten, phase, offset): the argument triples tried
CwArgs == {<<"DAC_COSINE_ATTEN_DB_0", "DAC_COSINE_PHASE_0", DAC_CW_OFFSET_DEFAULT>>,
           <<"DAC_COSINE_ATTEN_DB_18", "DAC_COSINE_PHASE_180", -128>>,
           <<"ATTEN_OUT_OF_DOMAIN", "PHASE_OUT_OF_DOMAIN", 127>>}

\* the members a constructor that returns early never writes: whatever the
\* object's storage held (zeroed static storage, or stack or heap garbage)
UninitChoices ==
  {[atten |-> "DAC_COSINE_ATTEN_DB_0", phase |-> "PHASE_OUT_OF_DOMAIN",
    offset |-> 0, freq_hz |-> 0],
   [atten |-> "ATTEN_OUT_OF_DOMAIN", phase |-> "DAC_COSINE_PHASE_180",
    offset |-> 127, freq_hz |-> 1000]}

\* the driver function that fails during a call, per method
EnableFails == {"none", "dac_cosine_start", "dac_oneshot_new_channel",
                "dac_oneshot_output_voltage"}
DisableFails == {"none", "dac_cosine_stop", "dac_oneshot_del_channel"}
VoltageFails == {"none", "dac_oneshot_new_channel", "dac_oneshot_output_voltage"}
CwFails == {"none", "dac_cosine_new_channel", "dac_cosine_start"}

(***************************************************************************)
(* A DacESP32 object.  is_started is the field of the driver's structure   *)
(* behind m_cosine_handle, which the library reads through the handle.     *)
(***************************************************************************)
NoObject ==
  [live |-> FALSE, m_channel |-> DAC_CHAN_UNDEFINED,
   oneshot_chan |-> DAC_CHAN_UNDEFINED, cosine_chan |-> DAC_CHAN_UNDEFINED,
   m_oneshot_value |-> -1,
   m_oneshot_handle |-> DAC_ONE_HANDLE_UNDEFINED,
   m_cosine_handle |-> DAC_COS_HANDLE_UNDEFINED, is_started |-> FALSE,
   atten |-> "DAC_COSINE_ATTEN_DB_0", phase |-> "DAC_COSINE_PHASE_0",
   offset |-> 0, freq_hz |-> 0]

\* a call of a driver function, of calcFrequSettings or a register write,
\* with the handles the object holds when the call is made
Call(fn, arg, val, o) ==
  [fn |-> fn, arg |-> arg, val |-> val,
   one |-> o.m_oneshot_handle, cos |-> o.m_cosine_handle]

\* the state an operation works on and what it returns
Frame(o, cw, div, fstep) ==
  [o |-> o, cw |-> cw, div |-> div, fstep |-> fstep, ret |-> "ESP_OK",
   calls |-> <<>>]

Return(fr, ret) == [fr EXCEPT !.ret = ret]

Log(fr, fn, arg, val) ==
  [fr EXCEPT !.calls = Append(@, Call(fn, arg, val, fr.o))]

(***************************************************************************)
(* Constructor and destructor.  sh is the record of the class's static     *)
(* members.                                                                *)
(***************************************************************************)
Statics(count, cw, l0, l1) ==
  [m_objectCount |-> count, m_cwFrequency |-> cw, m_ch0_locked |-> l0,
   m_ch1_locked |-> l1]

\* the object once the constructor has claimed channel ch
Claimed(o, ch, sh) ==
  [o EXCEPT !.m_channel = ch, !.oneshot_chan = ch, !.cosine_chan = ch,
            !.atten = "DAC_COSINE_ATTEN_DB_0", !.phase = "DAC_COSINE_PHASE_0",
            !.offset = DAC_CW_OFFSET_DEFAULT, !.freq_hz = sh.m_cwFrequency]

\* variant of the constructor that takes the channel without looking at
\* its lock flag
ConstructorNoLockCheck(channel, uninit, sh) ==
  LET o == [NoObject EXCEPT !.live = TRUE, !.atten = uninit.atten,
                            !.phase = uninit.phase, !.offset = uninit.offset,
                            !.freq_hz = uninit.freq_hz]
      counted == [sh EXCEPT !.m_objectCount = @ + 1]
  IN  IF counted.m_objectCount > DAC_CHAN_MAX THEN [o |-> o, sh |-> counted]
      ELSE IF channel = DAC_CHAN_0
        THEN [o |-> Claimed(o, DAC_CHAN_0, sh),
              sh |-> [counted EXCEPT !.m_ch0_locked = TRUE]]
      ELSE IF channel = DAC_CHAN_1
        THEN [o |-> Claimed(o, DAC_CHAN_1, sh),
              sh |-> [counted EXCEPT !.m_ch1_locked = TRUE]]
      ELSE [o |-> o, sh |-> counted]

\* DacESP32(dac_channel_t channel); uninit is what the storage held
Constructor(channel, uninit, sh) ==
  LET o == [NoObject EXCEPT !.live = TRUE, !.atten = uninit.atten,
                            !.phase = uninit.phase, !.offset = uninit.offset,
                            !.freq_hz = uninit.freq_hz]
      counted == [sh EXCEPT !.m_objectCount = @ + 1]
  IN  IF counted.m_objectCount > DAC_CHAN_MAX THEN [o |-> o, sh |-> counted]
      ELSE IF channel = DAC_CHAN_0
        THEN IF sh.m_ch0_locked THEN [o |-> o, sh |-> counted]
             ELSE [o |-> Claimed(o, DAC_CHAN_0, sh),
                   sh |-> [counted EXCEPT !.m_ch0_locked = TRUE]]
      ELSE IF channel = DAC_CHAN_1
        THEN IF sh.m_ch1_locked THEN [o |-> o, sh |-> counted]
             ELSE [o |-> Claimed(o, DAC_CHAN_1, sh),
                   sh |-> [counted EXCEPT !.m_ch1_locked = TRUE]]
      ELSE [o |-> o, sh |-> counted]

\* variant of the destructor that leaves the lock flags as they are
DestructorKeepsLock(o, sh) ==
  [calls |-> <<>>, sh |-> [sh EXCEPT !.m_objectCount = @ - 1]]

\* variant of the destructor that does not decrement m_objectCount
DestructorKeepsCount(o, sh) ==
  LET fr0 == Frame(o, sh.m_cwFrequency, 0, 0)
      fr1 == IF o.m_oneshot_handle # DAC_ONE_HANDLE_UNDEFINED
               THEN Log(fr0, "dac_oneshot_del_channel", o.oneshot_chan, 0)
               ELSE fr0
      fr2 == IF o.m_cosine_handle # DAC_COS_HANDLE_UNDEFINED /\ o.is_started
               THEN Log(fr1, "dac_cosine_stop", o.cosine_chan, 0)
               ELSE fr1
      fr3 == IF o.m_cosine_handle # DAC_COS_HANDLE_UNDEFINED
               THEN Log(fr2, "dac_cosine_del_channel", o.cosine_chan, 0)
               ELSE fr2
      unlocked == IF o.m_channel = DAC_CHAN_0
                    THEN [sh EXCEPT !.m_ch0_locked = FALSE]
                  ELSE IF o.m_channel = DAC_CHAN_1
                    THEN [sh EXCEPT !.m_ch1_locked = FALSE]
                  ELSE sh
  IN  [calls |-> fr3.calls, sh |-> unlocked]

\* variant of the destructor that deletes a running cosine channel without
\* stopping it
DestructorNoStop(o, sh) ==
  LET fr0 == Frame(o, sh.m_cwFrequency, 0, 0)
      fr1 == IF o.m_oneshot_handle # DAC_ONE_HANDLE_UNDEFINED
               THEN Log(fr0, "dac_oneshot_del_channel", o.oneshot_chan, 0)
               ELSE fr0
      fr3 == IF o.m_cosine_handle # DAC_COS_HANDLE_UNDEFINED
               THEN Log(fr1, "dac_cosine_del_channel", o.cosine_chan, 0)
               ELSE fr1
      unlocked == IF o.m_channel = DAC_CHAN_0
                    THEN [sh EXCEPT !.m_ch0_locked = FALSE]
                  ELSE IF o.m_channel = DAC_CHAN_1
                    THEN [sh EXCEPT !.m_ch1_locked = FALSE]
                  ELSE sh
  IN  [calls |-> fr3.calls,
       sh |-> [unlocked EXCEPT !.m_objectCount = @ - 1]]

\* ~DacESP32(): the driver calls made and the static members afterwards
Destructor(o, sh) ==
  LET fr0 == Frame(o, sh.m_cwFrequency, 0, 0)
      fr1 == IF o.m_oneshot_handle # DAC_ONE_HANDLE_UNDEFINED
               THEN Log(fr0, "dac_oneshot_del_channel", o.oneshot_chan, 0)
               ELSE fr0
      fr2 == IF o.m_cosine_handle # DAC_COS_HANDLE_UNDEFINED /\ o.is_started
               THEN Log(fr1, "dac_cosine_stop", o.cosine_chan, 0)
               ELSE fr1
      fr3 == IF o.m_cosine_handle # DAC_COS_HANDLE_UNDEFINED
               THEN Log(fr2, "dac_cosine_del_channel", o.cosine_chan, 0)
               ELSE fr2
      unlocked == IF o.m_channel = DAC_CHAN_0
                    THEN [sh EXCEPT !.m_ch0_locked = FALSE]
                  ELSE IF o.m_channel = DAC_CHAN_1
                    THEN [sh EXCEPT !.m_ch1_locked = FALSE]
                  ELSE sh
  IN  [calls |-> fr3.calls,
       sh |-> [unlocked EXCEPT !.m_objectCount = @ - 1]]

(***************************************************************************)
(* The methods.  fr is the Frame the method starts in; fail names the      *)
(* driver function whose calls fail during this method ("none": every call *)
(* succeeds).  A failing dac_*_new_channel leaves the handle unwritten.    *)
(***************************************************************************)
\* getGPIOnum(gpio_num_t *gpio_num); out is the number written
getGPIOnum(fr) ==
  IF fr.o.m_channel = DAC_CHAN_UNDEFINED
    THEN [ret |-> "ESP_FAIL", out |-> 0]
    ELSE [ret |-> "ESP_OK", out |-> IF fr.o.m_channel = DAC_CHAN_0 THEN 25 ELSE 26]

\* variant that leaves the cosine channel registered
KeepCosine(fr) == fr

\* stop (when started) and delete the cosine channel, forget the handle
DropCosine(fr) ==
  IF fr.o.m_cosine_handle = DAC_COS_HANDLE_UNDEFINED THEN fr
  ELSE LET a == IF fr.o.is_started
                  THEN Log(fr, "dac_cosine_stop", fr.o.cosine_chan, 0)
                  ELSE fr
           b == Log(a, "dac_cosine_del_channel", fr.o.cosine_chan, 0)
       IN  [b EXCEPT !.o.m_cosine_handle = DAC_COS_HANDLE_UNDEFINED,
                     !.o.is_started = FALSE]

\* variant that leaves the oneshot channel registered
KeepOneshot(fr) == fr

\* delete the oneshot channel, forget the handle
DropOneshot(fr) ==
  IF fr.o.m_oneshot_handle = DAC_ONE_HANDLE_UNDEFINED THEN fr
  ELSE [Log(fr, "dac_oneshot_del_channel", fr.o.oneshot_chan, 0)
          EXCEPT !.o.m_oneshot_handle = DAC_ONE_HANDLE_UNDEFINED]

\* outputVoltage(uint8_t value)
outputVoltage(fr, value, fail) ==
  IF fr.o.oneshot_chan = DAC_CHAN_UNDEFINED THEN Return(fr, "ESP_FAIL")
  ELSE LET a == DropCosine(fr)
           register == a.o.m_oneshot_handle = DAC_ONE_HANDLE_UNDEFINED
           b == IF register
                  THEN Log(a, "dac_oneshot_new_channel", a.o.oneshot_chan, 0)
                  ELSE a
           c == [b EXCEPT !.o.m_oneshot_handle = HANDLE,
                          !.o.m_oneshot_value = value]
           d == Log(c, "dac_oneshot_output_voltage", c.o.oneshot_chan, value)
       IN  IF register /\ fail = "dac_oneshot_new_channel"
             THEN Return(b, DRIVER_ERROR)
           ELSE IF fail = "dac_oneshot_output_voltage"
             THEN Return(d, DRIVER_ERROR)
           ELSE Return(d, "ESP_OK")

\* outputVoltage(float voltage), the voltage given in millivolt
outputVoltageFloat(fr, mv, fail) == outputVoltage(fr, VoltageToValue(mv), fail)

\* variant of enable that does not output the cached static value again
enableIgnoresValue(fr, fail) ==
  IF fr.o.m_channel = DAC_CHAN_UNDEFINED THEN Return(fr, "ESP_FAIL")
  ELSE IF fr.o.m_cosine_handle # DAC_COS_HANDLE_UNDEFINED
    THEN IF ~fr.o.is_started
           THEN LET a == Log(fr, "dac_cosine_start", fr.o.cosine_chan, 0)
                IN  IF fail = "dac_cosine_start" THEN Return(a, DRIVER_ERROR)
                    ELSE Return([a EXCEPT !.o.is_started = TRUE], "ESP_OK")
           ELSE Return(fr, "ESP_OK")
  ELSE Return(fr, "ESP_OK")

\* enable()
enable(fr, fail) ==
  IF fr.o.m_channel = DAC_CHAN_UNDEFINED THEN Return(fr, "ESP_FAIL")
  ELSE IF fr.o.m_cosine_handle # DAC_COS_HANDLE_UNDEFINED
    THEN IF ~fr.o.is_started
           THEN LET a == Log(fr, "dac_cosine_start", fr.o.cosine_chan, 0)
                IN  IF fail = "dac_cosine_start" THEN Return(a, DRIVER_ERROR)
                    ELSE Return([a EXCEPT !.o.is_started = TRUE], "ESP_OK")
           ELSE Return(fr, "ESP_OK")
  ELSE IF fr.o.m_oneshot_value >= 0
    THEN outputVoltage(fr, fr.o.m_oneshot_value, fail)
  ELSE Return(fr, "ESP_OK")

\* variant of disable that forgets the cached static value when it deletes
\* the oneshot channel
disableForgetsValue(fr, fail) ==
  IF fr.o.m_channel = DAC_CHAN_UNDEFINED THEN Return(fr, "ESP_FAIL")
  ELSE IF fr.o.m_cosine_handle # DAC_COS_HANDLE_UNDEFINED
    THEN IF fr.o.is_started
           THEN LET a == Log(fr, "dac_cosine_stop", fr.o.cosine_chan, 0)
                IN  IF fail = "dac_cosine_stop" THEN Return(a, DRIVER_ERROR)
                    ELSE Return([a EXCEPT !.o.is_started = FALSE], "ESP_OK")
           ELSE Return(fr, "ESP_OK")
  ELSE IF fr.o.m_oneshot_handle # DAC_ONE_HANDLE_UNDEFINED
    THEN Return([DropOneshot(fr) EXCEPT !.o.m_oneshot_value = -1],
                IF fail = "dac_oneshot_del_channel" THEN DRIVER_ERROR ELSE "ESP_OK")
  ELSE Return(fr, "ESP_OK")

\* disable()
disable(fr, fail) ==
  IF fr.o.m_channel = DAC_CHAN_UNDEFINED THEN Return(fr, "ESP_FAIL")
  ELSE IF fr.o.m_cosine_handle # DAC_COS_HANDLE_UNDEFINED
    THEN IF fr.o.is_started
           THEN LET a == Log(fr, "dac_cosine_stop", fr.o.cosine_chan, 0)
                IN  IF fail = "dac_cosine_stop" THEN Return(a, DRIVER_ERROR)
                    ELSE Return([a EXCEPT !.o.is_started = FALSE], "ESP_OK")
           ELSE Return(fr, "ESP_OK")
  ELSE IF fr.o.m_oneshot_handle # DAC_ONE_HANDLE_UNDEFINED
    THEN Return(DropOneshot(fr),
                IF fail = "dac_oneshot_del_channel" THEN DRIVER_ERROR ELSE "ESP_OK")
  ELSE Return(fr, "ESP_OK")

\* calcFrequSettings(frequency, &clkdiv, &sw_fstep) as the methods call it;
\* memo holds the results of the solver for the frequencies in use
Solve(memo, frequency) ==
  IF frequency \in DOMAIN memo THEN memo[frequency]
  ELSE calcFrequSettings(frequency)

\* REG_SET_FIELD(RTC_CNTL_CLK_CONF_REG, RTC_CNTL_CK8M_DIV_SEL, v)
SetDivSel(fr, v) ==
  [Log(fr, "REG_SET_FIELD", "RTC_CNTL_CK8M_DIV_SEL", v) EXCEPT !.div = v]

\* SET_PERI_REG_BITS(SENS_SAR_DAC_CTRL1_REG, SENS_SW_FSTEP, v, SENS_SW_FSTEP_S)
SetFstep(fr, v) ==
  [Log(fr, "SET_PERI_REG_BITS", "SENS_SW_FSTEP", v) EXCEPT !.fstep = v]

\* variant of outputCW that leaves the cached static value as it is
outputCWKeepsValue(fr, frequency, atten, phase, offset, fail, memo) ==
  IF fr.o.cosine_chan = DAC_CHAN_UNDEFINED THEN Return(fr, "ESP_FAIL")
  ELSE IF frequency < FREQUENCY_MIN THEN Return(fr, "ESP_ERR_NOT_SUPPORTED")
  ELSE LET a == [fr EXCEPT !.o.freq_hz = frequency, !.cw = frequency,
                           !.o.atten = atten, !.o.phase = phase,
                           !.o.offset = offset]
           b == DropCosine(DropOneshot(a))
           c == Log(b, "calcFrequSettings", "", b.o.freq_hz)
           s == Solve(memo, b.o.freq_hz)
           d == IF frequency < DRIVER_FMIN THEN SetDivSel(c, CK8M_DIV_MAX) ELSE c
           e == Log(d, "dac_cosine_new_channel", d.o.cosine_chan, 0)
           f == SetFstep(SetDivSel([e EXCEPT !.o.m_cosine_handle = HANDLE],
                                   s.clkdiv), s.sw_fstep)
           g == Log(f, "dac_cosine_start", f.o.cosine_chan, 0)
       IN  IF s.err # "ESP_OK" THEN Return(c, s.err)
           ELSE IF fail = "dac_cosine_new_channel" THEN Return(e, DRIVER_ERROR)
           ELSE Return([g EXCEPT !.o.is_started = (fail # "dac_cosine_start")],
                       "ESP_OK")

\* outputCW(frequency, atten, phase, offset)
outputCW(fr, frequency, atten, phase, offset, fail, memo) ==
  IF fr.o.cosine_chan = DAC_CHAN_UNDEFINED THEN Return(fr, "ESP_FAIL")
  ELSE IF frequency < FREQUENCY_MIN THEN Return(fr, "ESP_ERR_NOT_SUPPORTED")
  ELSE LET a == [fr EXCEPT !.o.freq_hz = frequency, !.cw = frequency,
                           !.o.atten = atten, !.o.phase = phase,
                           !.o.offset = offset, !.o.m_oneshot_value = -1]
           b == DropCosine(DropOneshot(a))
           c == Log(b, "calcFrequSettings", "", b.o.freq_hz)
           s == Solve(memo, b.o.freq_hz)
           d == IF frequency < DRIVER_FMIN THEN SetDivSel(c, CK8M_DIV_MAX) ELSE c
           e == Log(d, "dac_cosine_new_channel", d.o.cosine_chan, 0)
           f == SetFstep(SetDivSel([e EXCEPT !.o.m_cosine_handle = HANDLE],
                                   s.clkdiv), s.sw_fstep)
           g == Log(f, "dac_cosine_start", f.o.cosine_chan, 0)
       IN  IF s.err # "ESP_OK" THEN Return(c, s.err)
           ELSE IF fail = "dac_cosine_new_channel" THEN Return(e, DRIVER_ERROR)
           ELSE Return([g EXCEPT !.o.is_started = (fail # "dac_cosine_start")],
                       "ESP_OK")

\* outputCW(frequency): the cached scale, phase and offset are the arguments
outputCWCached(fr, frequency, fail, memo) ==
  outputCW(fr, frequency, fr.o.atten, fr.o.phase, fr.o.offset, fail, memo)

\* variant of setCwFrequency without FREQUENCY_CHECK
setCwFrequencyNoCheck(fr, frequency, memo) ==
  IF fr.o.m_channel = DAC_CHAN_UNDEFINED THEN Return(fr, "ESP_FAIL")
  ELSE LET a == Log(fr, "calcFrequSettings", "", frequency)
           s == Solve(memo, frequency)
           b == [a EXCEPT !.o.freq_hz = frequency, !.cw = frequency]
       IN  IF s.err # "ESP_OK" THEN Return(a, s.err)
           ELSE IF b.o.m_cosine_handle # DAC_COS_HANDLE_UNDEFINED
             THEN Return(SetFstep(SetDivSel(b, s.clkdiv), s.sw_fstep), "ESP_OK")
           ELSE Return(b, "ESP_OK")

\* variant of setCwFrequency that writes the registers whether or not a
\* cosine channel is registered
setCwFrequencyAlwaysWrites(fr, frequency, memo) ==
  IF fr.o.m_channel = DAC_CHAN_UNDEFINED THEN Return(fr, "ESP_FAIL")
  ELSE IF frequency < FREQUENCY_MIN THEN Return(fr, "ESP_ERR_NOT_SUPPORTED")
  ELSE LET a == Log(fr, "calcFrequSettings", "", frequency)
           s == Solve(memo, frequency)
           b == [a EXCEPT !.o.freq_hz = frequency, !.cw = frequency]
       IN  IF s.err # "ESP_OK" THEN Return(a, s.err)
           ELSE Return(SetFstep(SetDivSel(b, s.clkdiv), s.sw_fstep), "ESP_OK")

\* setCwFrequency(frequency)
setCwFrequency(fr, frequency, memo) ==
  IF fr.o.m_channel = DAC_CHAN_UNDEFINED THEN Return(fr, "ESP_FAIL")
  ELSE IF frequency < FREQUENCY_MIN THEN Return(fr, "ESP_ERR_NOT_SUPPORTED")
  ELSE LET a == Log(fr, "calcFrequSettings", "", frequency)
           s == Solve(memo, frequency)
           b == [a EXCEPT !.o.freq_hz = frequency, !.cw = frequency]
       IN  IF s.err # "ESP_OK" THEN Return(a, s.err)
           ELSE IF b.o.m_cosine_handle # DAC_COS_HANDLE_UNDEFINED
             THEN Return(SetFstep(SetDivSel(b, s.clkdiv), s.sw_fstep), "ESP_OK")
           ELSE Return(b, "ESP_OK")

\* variant of SetCtrl2 that writes the field of the other channel
SetCtrl2Swapped(fr, field1, field2, v) ==
  IF fr.o.m_cosine_handle = DAC_COS_HANDLE_UNDEFINED THEN fr
  ELSE IF fr.o.m_channel = DAC_CHAN_0
    THEN Log(fr, "SET_PERI_REG_BITS", field2, v)
  ELSE Log(fr, "SET_PERI_REG_BITS", field1, v)

\* the SET_PERI_REG_BITS of SENS_SAR_DAC_CTRL2_REG that the three setters
\* below make when a cosine channel is registered: field1 for DAC_CHAN_0,
\* field2 otherwise
SetCtrl2(fr, field1, field2, v) ==
  IF fr.o.m_cosine_handle = DAC_COS_HANDLE_UNDEFINED THEN fr
  ELSE IF fr.o.m_channel = DAC_CHAN_0
    THEN Log(fr, "SET_PERI_REG_BITS", field1, v)
  ELSE Log(fr, "SET_PERI_REG_BITS", field2, v)

\* variant of setCwScale that takes any attenuation
setCwScaleNoDomainCheck(fr, atten) ==
  IF fr.o.m_channel = DAC_CHAN_UNDEFINED THEN Return(fr, "ESP_FAIL")
  ELSE Return(SetCtrl2([fr EXCEPT !.o.atten = atten],
                       "SENS_DAC_SCALE1", "SENS_DAC_SCALE2", atten), "ESP_OK")

\* setCwScale(atten)
setCwScale(fr, atten) ==
  IF fr.o.m_channel = DAC_CHAN_UNDEFINED THEN Return(fr, "ESP_FAIL")
  ELSE IF atten \notin AttenLevels THEN Return(fr, "ESP_ERR_INVALID_ARG")
  ELSE Return(SetCtrl2([fr EXCEPT !.o.atten = atten],
                       "SENS_DAC_SCALE1", "SENS_DAC_SCALE2", atten), "ESP_OK")

\* variant of setCwOffset without CHANNEL_CHECK
setCwOffsetUnchecked(fr, offset) ==
  Return(SetCtrl2([fr EXCEPT !.o.offset = offset],
                  "SENS_DAC_DC1", "SENS_DAC_DC2", offset), "ESP_OK")

\* setCwOffset(offset)
setCwOffset(fr, offset) ==
  IF fr.o.m_channel = DAC_CHAN_UNDEFINED THEN Return(fr, "ESP_FAIL")
  ELSE Return(SetCtrl2([fr EXCEPT !.o.offset = offset],
                       "SENS_DAC_DC1", "SENS_DAC_DC2", offset), "ESP_OK")

\* setCwPhase(phase)
setCwPhase(fr, phase) ==
  IF fr.o.m_channel = DAC_CHAN_UNDEFINED THEN Return(fr, "ESP_FAIL")
  ELSE IF phase \notin PhaseValues THEN Return(fr, "ESP_ERR_INVALID_ARG")
  ELSE Return(SetCtrl2([fr EXCEPT !.o.phase = phase],
                       "SENS_DAC_INV1", "SENS_DAC_INV2", phase), "ESP_OK")

(***************************************************************************)
(* The program: the objects, the static members of the class, the two      *)
(* frequency registers, and the call made last (its arguments, result and  *)
(* the calls it made).  solverMemo holds calcFrequSettings for the          *)
(* frequencies the methods are called with, computed once.  solverIn and   *)
(* solverOut belong to SolverSpec below.  born is a history variable: for  *)
(* each live object the static members as they were when its constructor   *)
(* was entered, and whether no other object was constructed or destroyed   *)
(* since.  ctx belongs to RaceSpec below: the position of each execution   *)
(* context inside a constructor or destructor.                             *)
(***************************************************************************)
VARIABLES objs, m_objectCount, m_cwFrequency, m_ch0_locked, m_ch1_locked,
          regDivSel, regFstep, last, nops, solverMemo, solverIn, solverOut,
          born, ctx

statics == <<m_objectCount, m_cwFrequency, m_ch0_locked, m_ch1_locked>>
regs == <<regDivSel, regFstep>>
solver == <<solverMemo, solverIn, solverOut>>
vars == <<objs, statics, regs, last, nops, solver, born, ctx>>

\* the execution contexts, and a context that is inside no call
Contexts == {1, 2}
IdleCtx ==
  [pc |-> "idle", id |-> 0, chan |-> DAC_CHAN_UNDEFINED, tmp |-> 0, done |-> FALSE]

\* the history of a place that holds no object
NoBirth == [sh |-> Statics(0, 0, FALSE, FALSE), only |-> FALSE]

NoResult == [err |-> "none", clkdiv |-> 0, sw_fstep |-> 0]

NoArgs ==
  [chan |-> "", value |-> -1, mv |-> 0, frequency |-> 0, atten |-> "",
   phase |-> "", offset |-> 0, fail |-> "none"]

NoCall == [op |-> "", id |-> 0, ret |-> "", out |-> 0, calls |-> <<>>, args |-> NoArgs]

Init ==
  /\ objs = [i \in ObjectIds |-> NoObject]
  /\ m_objectCount = 0
  /\ m_cwFrequency = 0
  /\ m_ch0_locked = FALSE
  /\ m_ch1_locked = FALSE
  /\ regDivSel = REG_RESET
  /\ regFstep = REG_RESET
  /\ last = NoCall
  /\ nops = 0
  /\ solverMemo = [f \in FrequencyArgs |-> calcFrequSettings(f)]
  /\ solverIn = 0
  /\ solverOut = NoResult
  /\ born = [i \in ObjectIds |-> NoBirth]
  /\ ctx = [k \in Contexts |-> IdleCtx]

Sh == Statics(m_objectCount, m_cwFrequency, m_ch0_locked, m_ch1_locked)

SetStatics(sh) ==
  /\ m_objectCount' = sh.m_objectCount
  /\ m_cwFrequency' = sh.m_cwFrequency
  /\ m_ch0_locked' = sh.m_ch0_locked
  /\ m_ch1_locked' = sh.m_ch1_locked

FreeIds == {i \in ObjectIds : ~objs[i].live}
LiveIds == {i \in ObjectIds : objs[i].live}

\* DacESP32 obj(channel): the object takes the first free place
New(channel, uninit) ==
  /\ nops < MaxOps
  /\ FreeIds # {}
  /\ LET i == CHOOSE k \in FreeIds : \A j \in FreeIds : k <= j
         r == Constructor(channel, uninit, Sh)
     IN  /\ objs' = [objs EXCEPT ![i] = r.o]
         /\ SetStatics(r.sh)
         /\ last' = [NoCall EXCEPT !.op = "DacESP32", !.id = i,
                                   !.args.chan = channel]
         /\ born' = [j \in ObjectIds |->
                       IF j = i THEN [sh |-> Sh, only |-> TRUE]
                       ELSE [born[j] EXCEPT !.only = FALSE]]
  /\ nops' = nops + 1
  /\ UNCHANGED <<regs, solver, ctx>>

\* the object i goes out of scope or is deleted
Delete(i) ==
  /\ nops < MaxOps
  /\ objs[i].live
  /\ LET r == Destructor(objs[i], Sh)
     IN  /\ objs' = [objs EXCEPT ![i] = NoObject]
         /\ SetStatics(r.sh)
         /\ last' = [NoCall EXCEPT !.op = "~DacESP32", !.id = i,
                                   !.calls = r.calls]
         /\ born' = [j \in ObjectIds |->
                       IF j = i THEN NoBirth
                       ELSE [born[j] EXCEPT !.only = FALSE]]
  /\ nops' = nops + 1
  /\ UNCHANGED <<regs, solver, ctx>>

\* the Frame a method of object i starts in
Enter(i) == Frame(objs[i], m_cwFrequency, regDivSel, regFstep)

\* variant of Leave in which the scale is one value shared by all objects
LeaveSharesScale(i, fr, op, args) ==
  /\ objs' = [j \in ObjectIds |->
               IF j = i THEN fr.o
               ELSE IF objs[j].live THEN [objs[j] EXCEPT !.atten = fr.o.atten]
               ELSE objs[j]]
  /\ m_cwFrequency' = fr.cw
  /\ regDivSel' = fr.div
  /\ regFstep' = fr.fstep
  /\ last' = [op |-> op, id |-> i, ret |-> fr.ret, out |-> 0,
              calls |-> fr.calls, args |-> args]
  /\ nops' = nops + 1
  /\ UNCHANGED <<m_objectCount, m_ch0_locked, m_ch1_locked, solver, born, ctx>>

\* a method of object i has run and left the Frame fr
Leave(i, fr, op, args) ==
  /\ objs' = [objs EXCEPT ![i] = fr.o]
  /\ m_cwFrequency' = fr.cw
  /\ regDivSel' = fr.div
  /\ regFstep' = fr.fstep
  /\ last' = [op |-> op, id |-> i, ret |-> fr.ret, out |-> 0,
              calls |-> fr.calls, args |-> args]
  /\ nops' = nops + 1
  /\ UNCHANGED <<m_objectCount, m_ch0_locked, m_ch1_locked, solver, born, ctx>>

Callable(i) == nops < MaxOps /\ objs[i].live

CallGetGPIOnum(i) ==
  /\ Callable(i)
  /\ LET r == getGPIOnum(Enter(i))
     IN  last' = [NoCall EXCEPT !.op = "getGPIOnum", !.id = i, !.ret = r.ret,
                                !.out = r.out]
  /\ nops' = nops + 1
  /\ UNCHANGED <<objs, statics, regs, solver, born, ctx>>

\* a failure can only be that of a driver function the method calls
FailMade(fr, fail) ==
  fail = "none" \/ \E k \in 1 .. Len(fr.calls) : fr.calls[k].fn = fail

CallEnable(i, fail) ==
  /\ Callable(i)
  /\ \E fr \in {enable(Enter(i), fail)} :
       /\ FailMade(fr, fail)
       /\ Leave(i, fr, "enable", [NoArgs EXCEPT !.fail = fail])

CallDisable(i, fail) ==
  /\ Callable(i)
  /\ \E fr \in {disable(Enter(i), fail)} :
       /\ FailMade(fr, fail)
       /\ Leave(i, fr, "disable", [NoArgs EXCEPT !.fail = fail])

CallOutputVoltage(i, value, fail) ==
  /\ Callable(i)
  /\ \E fr \in {outputVoltage(Enter(i), value, fail)} :
       /\ FailMade(fr, fail)
       /\ Leave(i, fr, "outputVoltage",
                [NoArgs EXCEPT !.value = value, !.fail = fail])

CallOutputVoltageFloat(i, mv, fail) ==
  /\ Callable(i)
  /\ \E fr \in {outputVoltageFloat(Enter(i), mv, fail)} :
       /\ FailMade(fr, fail)
       /\ Leave(i, fr, "outputVoltageFloat",
                [NoArgs EXCEPT !.mv = mv, !.fail = fail])

CallOutputCW(i, frequency, a, fail) ==
  /\ Callable(i)
  /\ \E fr \in {outputCW(Enter(i), frequency, a[1], a[2], a[3], fail, solverMemo)} :
       /\ FailMade(fr, fail)
       /\ Leave(i, fr, "outputCW",
                [NoArgs EXCEPT !.frequency = frequency, !.atten = a[1],
                               !.phase = a[2], !.offset = a[3], !.fail = fail])

CallOutputCWCached(i, frequency, fail) ==
  /\ Callable(i)
  /\ \E fr \in {outputCWCached(Enter(i), frequency, fail, solverMemo)} :
       /\ FailMade(fr, fail)
       /\ Leave(i, fr, "outputCWCached",
                [NoArgs EXCEPT !.frequency = frequency, !.fail = fail])

CallSetCwFrequency(i, frequency) ==
  /\ Callable(i)
  /\ Leave(i, setCwFrequency(Enter(i), frequency, solverMemo), "setCwFrequency",
           [NoArgs EXCEPT !.frequency = frequency])

CallSetCwScale(i, atten) ==
  /\ Callable(i)
  /\ Leave(i, setCwScale(Enter(i), atten), "setCwScale",
           [NoArgs EXCEPT !.atten = atten])

CallSetCwOffset(i, offset) ==
  /\ Callable(i)
  /\ Leave(i, setCwOffset(Enter(i), offset), "setCwOffset",
           [NoArgs EXCEPT !.offset = offset])

CallSetCwPhase(i, phase) ==
  /\ Callable(i)
  /\ Leave(i, setCwPhase(Enter(i), phase), "setCwPhase",
           [NoArgs EXCEPT !.phase = phase])

Next ==
  \/ \E channel \in ChannelArgs, uninit \in UninitChoices : New(channel, uninit)
  \/ \E i \in ObjectIds : Delete(i)
  \/ \E i \in ObjectIds : CallGetGPIOnum(i)
  \/ \E i \in ObjectIds, fail \in EnableFails : CallEnable(i, fail)
  \/ \E i \in ObjectIds, fail \in DisableFails : CallDisable(i, fail)
  \/ \E i \in ObjectIds, value \in ValueArgs, fail \in VoltageFails :
       CallOutputVoltage(i, value, fail)
  \/ \E i \in ObjectIds, mv \in MilliVoltArgs, fail \in VoltageFails :
       CallOutputVoltageFloat(i, mv, fail)
  \/ \E i \in ObjectIds, frequency \in FrequencyArgs, a \in CwArgs,
        fail \in CwFails : CallOutputCW(i, frequency, a, fail)
  \/ \E i \in ObjectIds, frequency \in FrequencyArgs, fail \in CwFails :
       CallOutputCWCached(i, frequency, fail)
  \/ \E i \in ObjectIds, frequency \in FrequencyArgs : CallSetCwFrequency(i, frequency)
  \/ \E i \in ObjectIds, atten \in AttenArgs : CallSetCwScale(i, atten)
  \/ \E i \in ObjectIds, offset \in OffsetArgs : CallSetCwOffset(i, offset)
  \/ \E i \in ObjectIds, phase \in PhaseArgs : CallSetCwPhase(i, phase)

Spec == Init /\ [][Next]_vars

(***************************************************************************)
(* One controller and its methods: the program has constructed a           *)
(* controller on DAC_CHAN_0 or DAC_CHAN_1 and goes on calling its methods; *)
(* nops counts the method calls.                                           *)
(***************************************************************************)
ModeInit ==
  \E channel \in {DAC_CHAN_0, DAC_CHAN_1}, uninit \in UninitChoices :
    LET r == Constructor(channel, uninit, Statics(0, 0, FALSE, FALSE))
    IN  /\ objs = [i \in ObjectIds |-> IF i = 1 THEN r.o ELSE NoObject]
        /\ m_objectCount = r.sh.m_objectCount
        /\ m_cwFrequency = r.sh.m_cwFrequency
        /\ m_ch0_locked = r.sh.m_ch0_locked
        /\ m_ch1_locked = r.sh.m_ch1_locked
        /\ regDivSel = REG_RESET
        /\ regFstep = REG_RESET
        /\ last = [NoCall EXCEPT !.op = "DacESP32", !.id = 1,
                                  !.args.chan = channel]
        /\ nops = 0
        /\ solverMemo = [f \in FrequencyArgs |-> calcFrequSettings(f)]
        /\ solverIn = 0
        /\ solverOut = NoResult
        /\ born = [i \in ObjectIds |->
                     IF i = 1 THEN [sh |-> Statics(0, 0, FALSE, FALSE), only |-> TRUE]
                     ELSE NoBirth]
        /\ ctx = [k \in Contexts |-> IdleCtx]

ModeNext ==
  \/ \E i \in ObjectIds : CallGetGPIOnum(i)
  \/ \E i \in ObjectIds, fail \in EnableFails : CallEnable(i, fail)
  \/ \E i \in ObjectIds, fail \in DisableFails : CallDisable(i, fail)
  \/ \E i \in ObjectIds, value \in ValueArgs, fail \in VoltageFails :
       CallOutputVoltage(i, value, fail)
  \/ \E i \in ObjectIds, mv \in MilliVoltArgs, fail \in VoltageFails :
       CallOutputVoltageFloat(i, mv, fail)
  \/ \E i \in ObjectIds, frequency \in FrequencyArgs, a \in CwArgs,
        fail \in CwFails : CallOutputCW(i, frequency, a, fail)
  \/ \E i \in ObjectIds, frequency \in FrequencyArgs, fail \in CwFails :
       CallOutputCWCached(i, frequency, fail)
  \/ \E i \in ObjectIds, frequency \in FrequencyArgs : CallSetCwFrequency(i, frequency)
  \/ \E i \in ObjectIds, atten \in AttenArgs : CallSetCwScale(i, atten)
  \/ \E i \in ObjectIds, offset \in OffsetArgs : CallSetCwOffset(i, offset)
  \/ \E i \in ObjectIds, phase \in PhaseArgs : CallSetCwPhase(i, phase)

ModeSpec == ModeInit /\ [][ModeNext]_vars

(***************************************************************************)
(* outputVoltage(float) on its own: the first call on one controller whose *)
(* claim succeeded, with every voltage of a grid of one millivolt from     *)
(* VoltsBelowZero mV below 0 V to VoltsAboveMax mV above                    *)
(* CHANNEL_VOLTAGE_MAX, every driver call succeeding.                      *)
(***************************************************************************)
VoltsBelowZero == 300
VoltsAboveMax == 300

VoltageGrid == (0 - VoltsBelowZero) .. (CHANNEL_VOLTAGE_MAX_MV + VoltsAboveMax)

VoltNext ==
  \E mv \in VoltageGrid : nops = 0 /\ CallOutputVoltageFloat(1, mv, "none")

VoltSpec == ModeInit /\ [][VoltNext]_vars

(***************************************************************************)
(* The two methods that write the divider and the step registers, over a   *)
(* grid of frequencies: on one controller whose claim succeeded, first     *)
(* outputCW with a frequency of the grid, then, when that frequency was    *)
(* one of FrequencyArgs, setCwFrequency with a frequency of the grid;      *)
(* every driver call succeeds.  The grid holds every frequency up to       *)
(* CwDenseBelow, every CwStride-th up to CwDenseAbove and every one from   *)
(* there to CwMaxInput.                                                    *)
(***************************************************************************)
CwDenseBelow == 140
CwStride == 64
CwDenseAbove == 31200
CwMaxInput == 31400

CwGrid ==
  (0 .. CwDenseBelow)
    \cup {f \in CwDenseBelow .. CwDenseAbove : f % CwStride = 0}
    \cup (CwDenseAbove .. CwMaxInput)
    \cup FrequencyArgs

CwInit ==
  \E channel \in {DAC_CHAN_0, DAC_CHAN_1} :
    LET r == Constructor(channel, CHOOSE u \in UninitChoices : TRUE,
                         Statics(0, 0, FALSE, FALSE))
    IN  /\ objs = [i \in ObjectIds |-> IF i = 1 THEN r.o ELSE NoObject]
        /\ m_objectCount = r.sh.m_objectCount
        /\ m_cwFrequency = r.sh.m_cwFrequency
        /\ m_ch0_locked = r.sh.m_ch0_locked
        /\ m_ch1_locked = r.sh.m_ch1_locked
        /\ regDivSel = REG_RESET
        /\ regFstep = REG_RESET
        /\ last = [NoCall EXCEPT !.op = "DacESP32", !.id = 1,
                                  !.args.chan = channel]
        /\ nops = 0
        /\ solverMemo = [f \in CwGrid |-> calcFrequSettings(f)]
        /\ solverIn = 0
        /\ solverOut = NoResult
        /\ born = [i \in ObjectIds |->
                     IF i = 1 THEN [sh |-> Statics(0, 0, FALSE, FALSE), only |-> TRUE]
                     ELSE NoBirth]
        /\ ctx = [k \in Contexts |-> IdleCtx]

CwNext ==
  \/ \E frequency \in CwGrid, a \in CwArgs :
       nops = 0 /\ CallOutputCW(1, frequency, a, "none")
  \/ \E frequency \in CwGrid :
       /\ nops = 1
       /\ objs[1].freq_hz \in FrequencyArgs
       /\ CallSetCwFrequency(1, frequency)

CwSpec == CwInit /\ [][CwNext]_vars

(***************************************************************************)
(* Constructors and destructors run from two execution contexts, each read *)
(* and each write of m_objectCount and of a lock flag a step of its own.   *)
(* The library uses no lock and no atomic variable, so the steps of the    *)
(* two contexts interleave freely.  The program starts with no object or   *)
(* with one controller of DAC_CHAN_0; each context runs one constructor or *)
(* one destructor.  ctx[k].tmp is the value of m_objectCount that context  *)
(* k has read.                                                             *)
(***************************************************************************)
RaceInit ==
  \E before \in BOOLEAN :
    LET r == Constructor(DAC_CHAN_0, CHOOSE u \in UninitChoices : TRUE,
                         Statics(0, 0, FALSE, FALSE))
        sh == IF before THEN r.sh ELSE Statics(0, 0, FALSE, FALSE)
    IN  /\ objs = [i \in ObjectIds |-> IF before /\ i = 1 THEN r.o ELSE NoObject]
        /\ m_objectCount = sh.m_objectCount
        /\ m_cwFrequency = sh.m_cwFrequency
        /\ m_ch0_locked = sh.m_ch0_locked
        /\ m_ch1_locked = sh.m_ch1_locked
        /\ regDivSel = REG_RESET
        /\ regFstep = REG_RESET
        /\ last = NoCall
        /\ nops = 0
        /\ solverMemo = [f \in {} |-> NoResult]
        /\ solverIn = 0
        /\ solverOut = NoResult
        /\ born = [i \in ObjectIds |-> NoBirth]
        /\ ctx = [k \in Contexts |-> IdleCtx]

\* context k moves to pc, keeping the object and the channel it works on
Goto(k, pc) == ctx' = [ctx EXCEPT ![k].pc = pc]

\* context k has returned from its constructor or destructor
Finished(k) == ctx' = [ctx EXCEPT ![k] = [IdleCtx EXCEPT !.done = TRUE]]

\* DacESP32 obj(channel) in context k: the members are set to undefined
StartConstructor(k, channel, uninit) ==
  /\ ctx[k].pc = "idle"
  /\ ~ctx[k].done
  /\ FreeIds # {}
  /\ LET i == CHOOSE j \in FreeIds : \A h \in FreeIds : j <= h
     IN  /\ objs' = [objs EXCEPT ![i] =
                       [NoObject EXCEPT !.live = TRUE, !.atten = uninit.atten,
                                        !.phase = uninit.phase,
                                        !.offset = uninit.offset,
                                        !.freq_hz = uninit.freq_hz]]
         /\ ctx' = [ctx EXCEPT ![k] = [pc |-> "ctor_load_count", id |-> i,
                                       chan |-> channel, tmp |-> 0,
                                       done |-> FALSE]]
  /\ UNCHANGED <<statics, regs, last, nops, solver, born>>

\* ++m_objectCount: the read
CtorLoadCount(k) ==
  /\ ctx[k].pc = "ctor_load_count"
  /\ ctx' = [ctx EXCEPT ![k].tmp = m_objectCount, ![k].pc = "ctor_store_count"]
  /\ UNCHANGED <<objs, statics, regs, last, nops, solver, born>>

\* ++m_objectCount: the write, and the comparison with DAC_CHAN_MAX
CtorStoreCount(k) ==
  /\ ctx[k].pc = "ctor_store_count"
  /\ m_objectCount' = ctx[k].tmp + 1
  /\ IF ctx[k].tmp + 1 > DAC_CHAN_MAX THEN Finished(k)
                                      ELSE Goto(k, "ctor_test_lock")
  /\ UNCHANGED <<objs, m_cwFrequency, m_ch0_locked, m_ch1_locked, regs, last,
                 nops, solver, born>>

\* if (m_chN_locked) return;
CtorTestLock(k) ==
  /\ ctx[k].pc = "ctor_test_lock"
  /\ IF (IF ctx[k].chan = DAC_CHAN_0 THEN m_ch0_locked ELSE m_ch1_locked)
       THEN Finished(k)
       ELSE Goto(k, "ctor_set_lock")
  /\ UNCHANGED <<objs, statics, regs, last, nops, solver, born>>

\* m_chN_locked = true; and the members of the object that follow
CtorSetLock(k) ==
  /\ ctx[k].pc = "ctor_set_lock"
  /\ IF ctx[k].chan = DAC_CHAN_0
       THEN m_ch0_locked' = TRUE /\ m_ch1_locked' = m_ch1_locked
       ELSE m_ch1_locked' = TRUE /\ m_ch0_locked' = m_ch0_locked
  /\ objs' = [objs EXCEPT ![ctx[k].id] = Claimed(@, ctx[k].chan, Sh)]
  /\ Finished(k)
  /\ UNCHANGED <<m_objectCount, m_cwFrequency, regs, last, nops, solver, born>>

\* the destructor of object i in context k: the driver calls
StartDestructor(k, i) ==
  /\ ctx[k].pc = "idle"
  /\ ~ctx[k].done
  /\ objs[i].live
  /\ \A j \in Contexts : ctx[j].id # i
  /\ ctx' = [ctx EXCEPT ![k] = [pc |-> "dtor_unlock", id |-> i,
                                chan |-> objs[i].m_channel, tmp |-> 0,
                                done |-> FALSE]]
  /\ UNCHANGED <<objs, statics, regs, last, nops, solver, born>>

\* m_chN_locked = false for the channel of the object
DtorUnlock(k) ==
  /\ ctx[k].pc = "dtor_unlock"
  /\ m_ch0_locked' = IF ctx[k].chan = DAC_CHAN_0 THEN FALSE ELSE m_ch0_locked
  /\ m_ch1_locked' = IF ctx[k].chan = DAC_CHAN_1 THEN FALSE ELSE m_ch1_locked
  /\ Goto(k, "dtor_load_count")
  /\ UNCHANGED <<objs, m_objectCount, m_cwFrequency, regs, last, nops, solver,
                 born>>

\* m_objectCount--: the read
DtorLoadCount(k) ==
  /\ ctx[k].pc = "dtor_load_count"
  /\ ctx' = [ctx EXCEPT ![k].tmp = m_objectCount, ![k].pc = "dtor_store_count"]
  /\ UNCHANGED <<objs, statics, regs, last, nops, solver, born>>

\* m_objectCount--: the write; the object is gone
DtorStoreCount(k) ==
  /\ ctx[k].pc = "dtor_store_count"
  /\ m_objectCount' = ctx[k].tmp - 1
  /\ objs' = [objs EXCEPT ![ctx[k].id] = NoObject]
  /\ Finished(k)
  /\ UNCHANGED <<m_cwFrequency, m_ch0_locked, m_ch1_locked, regs, last, nops,
                 solver, born>>

RaceNext ==
  \E k \in Contexts :
    \/ \E channel \in {DAC_CHAN_0, DAC_CHAN_1}, uninit \in UninitChoices :
         StartConstructor(k, channel, uninit)
    \/ CtorLoadCount(k)
    \/ CtorStoreCount(k)
    \/ CtorTestLock(k)
    \/ CtorSetLock(k)
    \/ \E i \in ObjectIds : StartDestructor(k, i)
    \/ DtorUnlock(k)
    \/ DtorLoadCount(k)
    \/ DtorStoreCount(k)

RaceSpec == RaceInit /\ [][RaceNext]_vars

(***************************************************************************)
(* calcFrequSettings on its own: the target frequency is drawn from every  *)
(* value up to SolverDenseBelow, every SolverStride-th value up to         *)
(* SolverDenseAbove and every value from there to SolverMaxInput (beyond   *)
(* the highest reachable frequency).  For these targets frequency +        *)
(* deltaAbs stays below 2^32 and the casts to int32_t give the             *)
(* mathematical differences.                                               *)
(***************************************************************************)
SolverDenseBelow == 300
SolverStride == 3
SolverDenseAbove == 31000
SolverMaxInput == 31500

SolverInputs ==
  (0 .. SolverDenseBelow)
    \cup {f \in SolverDenseBelow .. SolverDenseAbove : f % SolverStride = 0}
    \cup (SolverDenseAbove .. SolverMaxInput)
    \cup FrequencyArgs

SolverInit ==
  /\ objs = [i \in ObjectIds |-> NoObject]
  /\ m_objectCount = 0
  /\ m_cwFrequency = 0
  /\ m_ch0_locked = FALSE
  /\ m_ch1_locked = FALSE
  /\ regDivSel = REG_RESET
  /\ regFstep = REG_RESET
  /\ last = NoCall
  /\ nops = 0
  /\ solverMemo = [f \in {} |-> NoResult]
  /\ solverIn \in SolverInputs
  /\ solverOut = NoResult
  /\ born = [i \in ObjectIds |-> NoBirth]
  /\ ctx = [k \in Contexts |-> IdleCtx]

\* err = calcFrequSettings(solverIn, &clkdiv, &sw_fstep)
CallCalcFrequSettings ==
  /\ solverOut = NoResult
  /\ solverOut' = calcFrequSettings(solverIn)
  /\ UNCHANGED <<objs, statics, regs, last, nops, solverMemo, solverIn, born, ctx>>

SolverNext == CallCalcFrequSettings

SolverSpec == SolverInit /\ [][SolverNext]_vars

(***************************************************************************)
(* Properties.                                                             *)
(***************************************************************************)
\* the live controllers bound to channel ch
Holders(ch) == {i \in ObjectIds : objs[i].live /\ objs[i].m_channel = ch}

\* the lock flag of channel ch, before and after a step
Locked(ch) == IF ch = DAC_CHAN_0 THEN m_ch0_locked ELSE m_ch1_locked
LockedNext(ch) == IF ch = DAC_CHAN_0 THEN m_ch0_locked' ELSE m_ch1_locked'

\* the step is a call of one of the operations ops
StepOf(ops) == nops' = nops + 1 /\ last'.op \in ops

Methods ==
  {"getGPIOnum", "enable", "disable", "outputVoltage", "outputVoltageFloat",
   "outputCW", "outputCWCached", "setCwFrequency", "setCwScale",
   "setCwOffset", "setCwPhase"}

\* C1: in every reachable state each of the two channels is the m_channel
\* of at most one live controller, and the channel's lock flag is true
\* exactly when such a controller exists.
C1_LockMatchesHolder ==
  \A ch \in {DAC_CHAN_0, DAC_CHAN_1} :
    /\ Cardinality(Holders(ch)) <= 1
    /\ Locked(ch) <=> Holders(ch) # {}

\* the controller of channel 1 was destroyed: channel 0 is still held by
\* its owner and locked, channel 1 is free again
C1_Witness ==
  /\ last.op = "~DacESP32"
  /\ Cardinality(Holders(DAC_CHAN_0)) = 1
  /\ m_ch0_locked /\ ~m_ch1_locked
  /\ m_objectCount = 1

\* C2: a construction for DAC_CHAN_0 or DAC_CHAN_1 succeeds (the new
\* controller's channel is that id and the lock flag becomes true) if and
\* only if the channel was unclaimed when the construction began; a
\* construction with any other id never succeeds.
C2_ConstructSucceedsIffUnclaimed ==
  [][StepOf({"DacESP32"}) =>
       IF last'.args.chan \in {DAC_CHAN_0, DAC_CHAN_1}
         THEN (/\ objs'[last'.id].m_channel = last'.args.chan
               /\ LockedNext(last'.args.chan))
                <=> ~Locked(last'.args.chan)
         ELSE objs'[last'.id].m_channel = DAC_CHAN_UNDEFINED]_vars

\* C3: a construction on a channel that is claimed fails: the new
\* controller's channel is DAC_CHAN_UNDEFINED and stays so while the
\* controller lives, both lock flags keep their values and every other
\* controller, the owner included, is unchanged.
C3_ClaimedChannelRefused ==
  [][/\ (StepOf({"DacESP32"}) /\ last'.args.chan \in {DAC_CHAN_0, DAC_CHAN_1}
           /\ Locked(last'.args.chan))
        => /\ objs'[last'.id].m_channel = DAC_CHAN_UNDEFINED
           /\ m_ch0_locked' = m_ch0_locked
           /\ m_ch1_locked' = m_ch1_locked
           /\ \A j \in ObjectIds \ {last'.id} : objs'[j] = objs[j]
     /\ \A i \in ObjectIds :
          (objs[i].live /\ objs[i].m_channel = DAC_CHAN_UNDEFINED /\ objs'[i].live)
            => objs'[i].m_channel = DAC_CHAN_UNDEFINED]_vars

\* a construction on channel 0 has just been refused because the channel
\* is held (not because of the object count) by a controller that is
\* outputting a voltage
C3_Witness ==
  /\ last.op = "DacESP32"
  /\ last.args.chan = DAC_CHAN_0
  /\ objs[last.id].m_channel = DAC_CHAN_UNDEFINED
  /\ m_objectCount <= DAC_CHAN_MAX
  /\ \E j \in Holders(DAC_CHAN_0) :
       objs[j].m_oneshot_handle # DAC_ONE_HANDLE_UNDEFINED

\* C4: no controller ever holds a oneshot and a cosine registration
\* together: not between two operations and not at any driver call, register
\* write or solver call inside an operation.
C4_NeverBothRegistrations ==
  /\ \A i \in ObjectIds :
       ~(/\ objs[i].m_oneshot_handle # DAC_ONE_HANDLE_UNDEFINED
         /\ objs[i].m_cosine_handle # DAC_COS_HANDLE_UNDEFINED)
  /\ \A k \in 1 .. Len(last.calls) :
       ~(/\ last.calls[k].one # DAC_ONE_HANDLE_UNDEFINED
         /\ last.calls[k].cos # DAC_COS_HANDLE_UNDEFINED)

\* outputVoltage has just switched a controller from the cosine to the
\* oneshot channel
C4_Witness ==
  /\ last.op = "outputVoltage"
  /\ last.ret = "ESP_OK"
  /\ objs[last.id].m_oneshot_handle # DAC_ONE_HANDLE_UNDEFINED
  /\ \E k \in 1 .. Len(last.calls) : last.calls[k].fn = "dac_cosine_del_channel"

\* C5: outputCW on a valid controller with a frequency of at least 16 for
\* which calcFrequSettings fails returns ESP_ERR_NOT_SUPPORTED and leaves
\* the registrations, the cached static value, the cached scale, phase and
\* offset and the shared frequency as they were.
C5_SolverFailureChangesNothing ==
  [][(/\ StepOf({"outputCW", "outputCWCached"})
      /\ objs[last'.id].cosine_chan # DAC_CHAN_UNDEFINED
      /\ last'.args.frequency >= FREQUENCY_MIN
      /\ solverMemo[last'.args.frequency].err # "ESP_OK")
       => /\ last'.ret = "ESP_ERR_NOT_SUPPORTED"
          /\ objs'[last'.id].m_oneshot_handle = objs[last'.id].m_oneshot_handle
          /\ objs'[last'.id].m_cosine_handle = objs[last'.id].m_cosine_handle
          /\ objs'[last'.id].is_started = objs[last'.id].is_started
          /\ objs'[last'.id].m_oneshot_value = objs[last'.id].m_oneshot_value
          /\ objs'[last'.id].atten = objs[last'.id].atten
          /\ objs'[last'.id].phase = objs[last'.id].phase
          /\ objs'[last'.id].offset = objs[last'.id].offset
          /\ m_cwFrequency' = m_cwFrequency]_vars

\* C6: on a controller whose channel is DAC_CHAN_UNDEFINED every method
\* returns ESP_FAIL, makes no driver call and no register write, and leaves
\* the controller, every other controller, the lock flags, m_objectCount,
\* m_cwFrequency and the registers unchanged.
C6_InvalidControllerRefusesAll ==
  [][(StepOf(Methods) /\ objs[last'.id].m_channel = DAC_CHAN_UNDEFINED)
       => /\ last'.ret = "ESP_FAIL"
          /\ last'.calls = <<>>
          /\ objs' = objs
          /\ statics' = statics
          /\ regs' = regs]_vars

\* outputCW(1000) was refused on a controller whose construction on the
\* held channel 0 had failed
C6_Witness ==
  /\ last.op = "outputCW"
  /\ last.args.frequency = 1000
  /\ last.ret = "ESP_FAIL"
  /\ objs[last.id].live
  /\ objs[last.id].m_channel = DAC_CHAN_UNDEFINED
  /\ m_ch0_locked

\* C7: with working driver calls outputVoltage(v) on a valid controller
\* leaves the oneshot channel registered, m_oneshot_value = v and no cosine
\* channel; a successful outputCW(f, scale, phase, offset) that follows
\* leaves the cosine channel registered and started, no oneshot channel,
\* the cached scale, phase and offset equal to the arguments and the
\* divider and step registers equal to calcFrequSettings(f), and it deletes
\* the oneshot channel before it creates the cosine channel.
C7_VoltageThenWaveform ==
  [][/\ (/\ StepOf({"outputVoltage"})
          /\ objs[last'.id].m_channel # DAC_CHAN_UNDEFINED
          /\ last'.args.fail = "none")
        => /\ last'.ret = "ESP_OK"
           /\ objs'[last'.id].m_oneshot_handle # DAC_ONE_HANDLE_UNDEFINED
           /\ objs'[last'.id].m_oneshot_value = last'.args.value
           /\ objs'[last'.id].m_cosine_handle = DAC_COS_HANDLE_UNDEFINED
     /\ (/\ last.op = "outputVoltage" /\ last.ret = "ESP_OK"
          /\ last.args.fail = "none"
          /\ StepOf({"outputCW"})
          /\ last'.id = last.id
          /\ last'.args.fail = "none" /\ last'.ret = "ESP_OK")
        => /\ objs'[last'.id].m_cosine_handle # DAC_COS_HANDLE_UNDEFINED
           /\ objs'[last'.id].is_started
           /\ objs'[last'.id].m_oneshot_handle = DAC_ONE_HANDLE_UNDEFINED
           /\ objs'[last'.id].atten = last'.args.atten
           /\ objs'[last'.id].phase = last'.args.phase
           /\ objs'[last'.id].offset = last'.args.offset
           /\ regDivSel' = calcFrequSettings(last'.args.frequency).clkdiv
           /\ regFstep' = calcFrequSettings(last'.args.frequency).sw_fstep
           /\ \E j, k \in 1 .. Len(last'.calls) :
                /\ j < k
                /\ last'.calls[j].fn = "dac_oneshot_del_channel"
                /\ last'.calls[k].fn = "dac_cosine_new_channel"]_vars

\* outputCW(1000, ...) has succeeded on a controller that was outputting a
\* voltage: the oneshot channel was deleted, the cosine channel runs and
\* the registers hold divider 4 and step 41
C7_Witness ==
  /\ last.op = "outputCW"
  /\ last.ret = "ESP_OK"
  /\ last.args.frequency = 1000
  /\ \E k \in 1 .. Len(last.calls) : last.calls[k].fn = "dac_oneshot_del_channel"
  /\ objs[last.id].is_started
  /\ regDivSel = 4
  /\ regFstep = 41

\* the frequency of divider div and step fstep, in exact arithmetic:
\* trunc(fstep * (CK8M / (1 + div)) / 65536)
Achieved(div, fstep) == (fstep * CK8M) \div ((1 + div) * PHASE_ACC)

\* the frequencies of the full search space
Achievable ==
  {Achieved(div, fstep) : div \in 0 .. CK8M_DIV_MAX, fstep \in 1 .. SW_FSTEP_MAX}

\* the lowest and the highest of them
MinReachable == Achieved(CK8M_DIV_MAX, 1)
MaxReachable == Achieved(0, SW_FSTEP_MAX)

\* calcFrequSettings(solverIn) has returned
Solved == solverOut # NoResult

\* C8: for every target from 16 to the highest reachable frequency
\* calcFrequSettings succeeds with a divider in 0..7 and a step in 1..256
\* whose frequency deviates from the target no more than that of any pair
\* of the search space.
C8_SolverGloballyOptimal ==
  (Solved /\ solverIn \in FREQUENCY_MIN .. MaxReachable)
    => /\ solverOut.err = "ESP_OK"
       /\ solverOut.clkdiv \in 0 .. CK8M_DIV_MAX
       /\ solverOut.sw_fstep \in 1 .. SW_FSTEP_MAX
       /\ \A a \in Achievable :
            Abs(Achieved(solverOut.clkdiv, solverOut.sw_fstep) - solverIn)
              <= Abs(a - solverIn)

\* the search for 29 Hz has returned a pair of 30 Hz, which lies above the
\* target: the pairs of 24 Hz and below are further away
C8_Witness ==
  /\ Solved
  /\ solverIn = 29
  /\ solverOut.err = "ESP_OK"
  /\ Achieved(solverOut.clkdiv, solverOut.sw_fstep) = 30

\* C9: for every target below the lowest reachable frequency (15 Hz, step 1
\* with divider 7) calcFrequSettings fails with ESP_ERR_NOT_SUPPORTED.
C9_SolverFailsBelowMinimum ==
  (Solved /\ solverIn < MinReachable) => solverOut.err = "ESP_ERR_NOT_SUPPORTED"

\* C9 as amended: for every target below 15 Hz calcFrequSettings succeeds
\* and returns divider 7 and step 1, the pair of the lowest reachable
\* frequency.
C9_SolverReturnsLowestPair ==
  (Solved /\ solverIn < MinReachable)
    => solverOut = [err |-> "ESP_OK", clkdiv |-> CK8M_DIV_MAX, sw_fstep |-> 1]

\* the search for 10 Hz has returned ESP_OK
C9_Witness ==
  /\ Solved
  /\ solverIn = 10
  /\ solverOut.err = "ESP_OK"

\* C10: outputCW and setCwFrequency on a valid controller with a frequency
\* below 16 return ESP_ERR_NOT_SUPPORTED without a call of calcFrequSettings,
\* a driver call or a register write, and change neither a controller nor
\* m_cwFrequency.
C10_LowFrequencyRejectedEarly ==
  [][(/\ StepOf({"outputCW", "outputCWCached", "setCwFrequency"})
      /\ objs[last'.id].m_channel # DAC_CHAN_UNDEFINED
      /\ last'.args.frequency < FREQUENCY_MIN)
       => /\ last'.ret = "ESP_ERR_NOT_SUPPORTED"
          /\ last'.calls = <<>>
          /\ objs' = objs
          /\ m_cwFrequency' = m_cwFrequency
          /\ regs' = regs]_vars

\* setCwFrequency(10) was rejected on a controller whose cosine channel is
\* registered
C10_Witness ==
  /\ last.op = "setCwFrequency"
  /\ last.args.frequency = 10
  /\ last.ret = "ESP_ERR_NOT_SUPPORTED"
  /\ objs[last.id].m_cosine_handle # DAC_COS_HANDLE_UNDEFINED

\* the controller the step's call is made on, before and after the call
Before == objs[last'.id]
After == objs'[last'.id]

\* the step's call is made on a controller whose claim succeeded
OnValid == objs[last'.id].m_channel # DAC_CHAN_UNDEFINED

\* the call trace t holds a call of fn
Calls(t, fn) == \E k \in 1 .. Len(t) : t[k].fn = fn

\* C11: on a valid controller setCwScale with a value outside the four
\* attenuation levels and setCwPhase with a value outside the two phases
\* return ESP_ERR_INVALID_ARG, write no register and change no state,
\* with and without a cosine channel registered.
C11_OutOfDomainRejected ==
  [][(\/ (StepOf({"setCwScale"}) /\ OnValid /\ last'.args.atten \notin AttenLevels)
      \/ (StepOf({"setCwPhase"}) /\ OnValid /\ last'.args.phase \notin PhaseValues))
       => /\ last'.ret = "ESP_ERR_INVALID_ARG"
          /\ last'.calls = <<>>
          /\ objs' = objs
          /\ statics' = statics
          /\ regs' = regs]_vars

\* setCwPhase with a phase outside the domain was rejected while the cosine
\* channel is running
C11_Witness ==
  /\ last.op = "setCwPhase"
  /\ last.args.phase \notin PhaseValues
  /\ last.ret = "ESP_ERR_INVALID_ARG"
  /\ objs[last.id].m_cosine_handle # DAC_COS_HANDLE_UNDEFINED
  /\ objs[last.id].is_started

\* the cached values m_oneshot_value, scale, phase, offset, frequency
Cached(o) == <<o.m_oneshot_value, o.atten, o.phase, o.offset, o.freq_hz>>

\* C12: disable() changes none of the cached values; with working driver
\* calls disable() on a controller that outputs a voltage deletes the
\* oneshot channel and on one whose cosine channel runs stops it, and the
\* enable() that follows brings the controller back to the state it had
\* before disable(): the oneshot channel registered again with the same
\* value output, resp. the cosine channel started again, every cached
\* value the same.
C12_DisableEnableRestores ==
  [][/\ (StepOf({"disable"}) /\ OnValid)
        => /\ Cached(After) = Cached(Before)
           /\ m_cwFrequency' = m_cwFrequency
     /\ (/\ last.op = "disable" /\ last.args.fail = "none" /\ last.ret = "ESP_OK"
          /\ StepOf({"enable"}) /\ last'.id = last.id /\ last'.args.fail = "none"
          /\ Calls(last.calls, "dac_oneshot_del_channel"))
        => /\ last'.ret = "ESP_OK"
           /\ After = [Before EXCEPT !.m_oneshot_handle = HANDLE]
           /\ Before.m_oneshot_handle = DAC_ONE_HANDLE_UNDEFINED
           /\ Before.m_oneshot_value >= 0
           /\ \E k \in 1 .. Len(last'.calls) :
                /\ last'.calls[k].fn = "dac_oneshot_output_voltage"
                /\ last'.calls[k].val = Before.m_oneshot_value
           /\ m_cwFrequency' = m_cwFrequency
     /\ (/\ last.op = "disable" /\ last.args.fail = "none" /\ last.ret = "ESP_OK"
          /\ StepOf({"enable"}) /\ last'.id = last.id /\ last'.args.fail = "none"
          /\ Calls(last.calls, "dac_cosine_stop"))
        => /\ last'.ret = "ESP_OK"
           /\ After = [Before EXCEPT !.is_started = TRUE]
           /\ ~Before.is_started
           /\ Before.m_cosine_handle # DAC_COS_HANDLE_UNDEFINED
           /\ Calls(last'.calls, "dac_cosine_start")
           /\ m_cwFrequency' = m_cwFrequency]_vars

\* enable() has registered the oneshot channel anew and output the cached
\* value 255 again: the channel had been deleted by disable()
C12_Witness ==
  /\ last.op = "enable"
  /\ last.ret = "ESP_OK"
  /\ Len(last.calls) = 2
  /\ last.calls[1].fn = "dac_oneshot_new_channel"
  /\ last.calls[2].fn = "dac_oneshot_output_voltage"
  /\ last.calls[2].val = 255
  /\ objs[last.id].m_oneshot_value = 255
  /\ objs[last.id].m_oneshot_handle # DAC_ONE_HANDLE_UNDEFINED

\* C13: enable() on a valid controller starts the registered cosine
\* channel when it is stopped, otherwise outputs the cached static value
\* again when there is one; with neither a cosine channel nor a cached
\* static value it returns ESP_OK, makes no driver call and changes nothing.
C13_EnableReactivates ==
  [][(StepOf({"enable"}) /\ OnValid)
       => /\ (Before.m_cosine_handle # DAC_COS_HANDLE_UNDEFINED /\ ~Before.is_started)
             => /\ Len(last'.calls) = 1
                /\ last'.calls[1].fn = "dac_cosine_start"
                /\ last'.args.fail = "none"
                     => (last'.ret = "ESP_OK"
                         /\ After = [Before EXCEPT !.is_started = TRUE])
          /\ (Before.m_cosine_handle # DAC_COS_HANDLE_UNDEFINED /\ Before.is_started)
             => (last'.ret = "ESP_OK" /\ last'.calls = <<>> /\ objs' = objs)
          /\ (Before.m_cosine_handle = DAC_COS_HANDLE_UNDEFINED
               /\ Before.m_oneshot_value >= 0)
             => /\ last'.calls # <<>>
                /\ last'.args.fail = "none"
                     => /\ last'.ret = "ESP_OK"
                        /\ last'.calls[Len(last'.calls)].fn = "dac_oneshot_output_voltage"
                        /\ last'.calls[Len(last'.calls)].val = Before.m_oneshot_value
                        /\ After = [Before EXCEPT !.m_oneshot_handle = HANDLE]
          /\ (Before.m_cosine_handle = DAC_COS_HANDLE_UNDEFINED
               /\ Before.m_oneshot_value < 0)
             => /\ last'.ret = "ESP_OK"
                /\ last'.calls = <<>>
                /\ objs' = objs
                /\ statics' = statics
                /\ regs' = regs]_vars

\* enable() has started a cosine channel that was registered and stopped
C13_Witness ==
  /\ last.op = "enable"
  /\ last.ret = "ESP_OK"
  /\ Len(last.calls) = 1
  /\ last.calls[1].fn = "dac_cosine_start"
  /\ objs[last.id].is_started

\* the names under which the register writes are logged
RegisterWrites == {"REG_SET_FIELD", "SET_PERI_REG_BITS"}

\* the call trace t holds a call of a driver function
DriverCalled(t) ==
  \E k \in 1 .. Len(t) : t[k].fn \notin RegisterWrites \cup {"calcFrequSettings"}

\* the call trace t holds a register write
RegisterWritten(t) == \E k \in 1 .. Len(t) : t[k].fn \in RegisterWrites

\* C14: setCwFrequency(f) on a valid controller calls no driver function
\* and changes neither handle, nor the started flag, nor the cached static
\* value, scale, phase and offset. When the solver succeeds it stores f in
\* m_cosine_cfg.freq_hz and m_cwFrequency and, with a cosine channel
\* registered, writes the solver's divider and step to the registers;
\* without one it writes no register. When the solver fails nothing changes.
C14_SetCwFrequencyKeepsMode ==
  [][(StepOf({"setCwFrequency"}) /\ OnValid /\ last'.args.frequency >= FREQUENCY_MIN)
       => LET f == last'.args.frequency
              s == solverMemo[f]
          IN  /\ ~DriverCalled(last'.calls)
              /\ After = [Before EXCEPT !.freq_hz = After.freq_hz]
              /\ \A j \in ObjectIds \ {last'.id} : objs'[j] = objs[j]
              /\ m_objectCount' = m_objectCount
              /\ m_ch0_locked' = m_ch0_locked
              /\ m_ch1_locked' = m_ch1_locked
              /\ s.err = "ESP_OK"
                   => /\ last'.ret = "ESP_OK"
                      /\ After.freq_hz = f
                      /\ m_cwFrequency' = f
                      /\ IF Before.m_cosine_handle # DAC_COS_HANDLE_UNDEFINED
                           THEN /\ regDivSel' = s.clkdiv
                                /\ regFstep' = s.sw_fstep
                                /\ RegisterWritten(last'.calls)
                           ELSE /\ regs' = regs
                                /\ ~RegisterWritten(last'.calls)
              /\ s.err # "ESP_OK"
                   => /\ last'.ret = s.err
                      /\ objs' = objs
                      /\ statics' = statics
                      /\ regs' = regs
                      /\ ~RegisterWritten(last'.calls)]_vars

\* setCwFrequency(100) on a controller with a cosine channel registered
\* has stored the frequency and written the solver's divider and step
C14_Witness ==
  /\ last.op = "setCwFrequency"
  /\ last.args.frequency = 100
  /\ last.ret = "ESP_OK"
  /\ objs[last.id].m_cosine_handle # DAC_COS_HANDLE_UNDEFINED
  /\ objs[last.id].freq_hz = 100
  /\ m_cwFrequency = 100
  /\ regDivSel = solverMemo[100].clkdiv
  /\ regFstep = solverMemo[100].sw_fstep
  /\ Len(last.calls) = 3

\* the register field of the step's controller: field1 for DAC_CHAN_0
OwnField(field1, field2) ==
  IF Before.m_channel = DAC_CHAN_0 THEN field1 ELSE field2

\* what a setter leaves behind: ESP_OK, the controller o, one write of v to
\* the own channel's field when a cosine channel is registered, no call
\* otherwise, and nothing else changed
SetterDid(o, field1, field2, v) ==
  /\ last'.ret = "ESP_OK"
  /\ After = o
  /\ \A j \in ObjectIds \ {last'.id} : objs'[j] = objs[j]
  /\ statics' = statics
  /\ regs' = regs
  /\ IF Before.m_cosine_handle # DAC_COS_HANDLE_UNDEFINED
       THEN /\ Len(last'.calls) = 1
            /\ last'.calls[1].fn = "SET_PERI_REG_BITS"
            /\ last'.calls[1].arg = OwnField(field1, field2)
            /\ last'.calls[1].val = v
       ELSE last'.calls = <<>>

\* C15: setCwScale, setCwOffset and setCwPhase with a value of the domain
\* store it in m_cosine_cfg; with a cosine channel registered they write
\* it to the field of the own channel only and neither delete, register,
\* start nor stop a channel; without one they write no register. The
\* outputCW(frequency) that follows registers the cosine channel with the
\* cached scale, phase and offset.
C15_SettersUpdateCacheAndOwnField ==
  [][/\ (StepOf({"setCwScale"}) /\ OnValid /\ last'.args.atten \in AttenLevels)
        => SetterDid([Before EXCEPT !.atten = last'.args.atten],
                     "SENS_DAC_SCALE1", "SENS_DAC_SCALE2", last'.args.atten)
     /\ (StepOf({"setCwOffset"}) /\ OnValid)
        => SetterDid([Before EXCEPT !.offset = last'.args.offset],
                     "SENS_DAC_DC1", "SENS_DAC_DC2", last'.args.offset)
     /\ (StepOf({"setCwPhase"}) /\ OnValid /\ last'.args.phase \in PhaseValues)
        => SetterDid([Before EXCEPT !.phase = last'.args.phase],
                     "SENS_DAC_INV1", "SENS_DAC_INV2", last'.args.phase)
     /\ (StepOf({"outputCWCached"}) /\ OnValid)
        => /\ After.atten = Before.atten
           /\ After.phase = Before.phase
           /\ After.offset = Before.offset
           /\ (last'.ret = "ESP_OK" /\ last'.args.fail = "none")
                => /\ After.m_cosine_handle # DAC_COS_HANDLE_UNDEFINED
                   /\ After.is_started
                   /\ Calls(last'.calls, "dac_cosine_new_channel")]_vars

\* outputCW(frequency) has registered and started the cosine channel with
\* the scale that setCwScale has cached in the one call made before (no
\* outputCW in use passes this scale together with this phase)
C15_Witness ==
  /\ last.op = "outputCWCached"
  /\ last.ret = "ESP_OK"
  /\ nops = 2
  /\ objs[last.id].m_cosine_handle # DAC_COS_HANDLE_UNDEFINED
  /\ objs[last.id].is_started
  /\ objs[last.id].atten = "DAC_COSINE_ATTEN_DB_18"
  /\ objs[last.id].phase = "DAC_COSINE_PHASE_0"

\* the number of lock flags that are set
LocksSet == Cardinality({ch \in {DAC_CHAN_0, DAC_CHAN_1} : Locked(ch)})

\* C16: in every reachable state m_objectCount equals the number of lock
\* flags that are set, and is zero only when no channel is claimed.
C16_CountEqualsLocks ==
  /\ m_objectCount = LocksSet
  /\ m_objectCount = 0 => LocksSet = 0

\* the position of the call of fn in the call trace t, 0 when there is none
Position(t, fn) ==
  IF Calls(t, fn) THEN CHOOSE k \in 1 .. Len(t) : t[k].fn = fn ELSE 0

\* C18: the destructor deletes the oneshot channel when one is registered,
\* deletes the cosine channel when one is registered, after stopping it
\* when it runs, makes no other call, and clears the lock flag of the
\* controller's own channel and no other; for a controller whose claim
\* failed it makes no driver call and leaves both lock flags as they are.
C18_DestructorReleasesOwn ==
  [][StepOf({"~DacESP32"})
       => LET t == last'.calls
          IN  /\ Calls(t, "dac_oneshot_del_channel")
                   <=> Before.m_oneshot_handle # DAC_ONE_HANDLE_UNDEFINED
              /\ Calls(t, "dac_cosine_del_channel")
                   <=> Before.m_cosine_handle # DAC_COS_HANDLE_UNDEFINED
              /\ Calls(t, "dac_cosine_stop")
                   <=> (Before.m_cosine_handle # DAC_COS_HANDLE_UNDEFINED
                        /\ Before.is_started)
              /\ Calls(t, "dac_cosine_stop")
                   => Position(t, "dac_cosine_stop") < Position(t, "dac_cosine_del_channel")
              /\ \A k \in 1 .. Len(t) :
                   /\ t[k].fn \in {"dac_oneshot_del_channel", "dac_cosine_stop",
                                    "dac_cosine_del_channel"}
                   /\ t[k].arg = Before.m_channel
              /\ Len(t) <= 2
              /\ \A ch \in {DAC_CHAN_0, DAC_CHAN_1} :
                   LockedNext(ch) <=> (Locked(ch) /\ ch # Before.m_channel)
              /\ Before.m_channel = DAC_CHAN_UNDEFINED
                   => /\ t = <<>>
                      /\ m_ch0_locked' = m_ch0_locked
                      /\ m_ch1_locked' = m_ch1_locked
              /\ ~After.live]_vars

\* a controller with a running cosine channel was destroyed: the channel
\* was stopped, then deleted, and no lock flag is set any more
C18_Witness ==
  /\ last.op = "~DacESP32"
  /\ Len(last.calls) = 2
  /\ last.calls[1].fn = "dac_cosine_stop"
  /\ last.calls[2].fn = "dac_cosine_del_channel"
  /\ ~m_ch0_locked
  /\ ~m_ch1_locked

\* C17: when a controller is destroyed and no other object was constructed
\* or destroyed since its construction, m_objectCount and both lock flags
\* are what they were before the construction, whether its claim succeeded
\* or not and whatever was called in between; and when a destruction
\* brings m_objectCount to zero, the destroyed controller's cosine channel
\* was stopped (when running) and deleted, and no object holds a cosine
\* channel any more.
C17_LifeCycleRestoresStatics ==
  [][StepOf({"~DacESP32"})
       => /\ born[last'.id].only
               => /\ m_objectCount' = born[last'.id].sh.m_objectCount
                  /\ m_ch0_locked' = born[last'.id].sh.m_ch0_locked
                  /\ m_ch1_locked' = born[last'.id].sh.m_ch1_locked
          /\ m_objectCount' = 0
               => /\ \A j \in ObjectIds :
                       /\ objs'[j].m_cosine_handle = DAC_COS_HANDLE_UNDEFINED
                       /\ ~objs'[j].is_started
                  /\ Before.m_cosine_handle # DAC_COS_HANDLE_UNDEFINED
                       => Calls(last'.calls, "dac_cosine_del_channel")
                  /\ Before.is_started
                       => Calls(last'.calls, "dac_cosine_stop")]_vars

\* a controller that claimed a channel and output a voltage was destroyed as
\* the last object: no object is counted and no channel is locked, as
\* before its construction
C17_Witness ==
  /\ last.op = "~DacESP32"
  /\ Calls(last.calls, "dac_oneshot_del_channel")
  /\ m_objectCount = 0
  /\ ~m_ch0_locked
  /\ ~m_ch1_locked
  /\ \A j \in ObjectIds : ~objs[j].live

\* CK8M / 65536 in lowest terms: 15625 / 128
StepNumerator == CK8M \div 512
StepDenominator == PHASE_ACC \div 512

\* the frequency of the pair (div, fstep) is within one step size
\* CK8M / (1 + div) / 65536 of the frequency f, both sides multiplied by
\* (1 + div) * 128: for the exact frequency and for the truncated one
WithinOneStep(f, div, fstep) ==
  /\ Abs(fstep * StepNumerator - f * (1 + div) * StepDenominator) <= StepNumerator
  /\ Abs(Achieved(div, fstep) - f) * (1 + div) * StepDenominator <= StepNumerator

\* C19: for every target from 16 to 31250 Hz, 1000 Hz among them,
\* calcFrequSettings succeeds with a pair whose frequency differs from the
\* target by at most one step size 8000000 / (1 + divider) / 65536 of the
\* divider returned.
C19_SolverWithinOneStep ==
  (Solved /\ solverIn \in FREQUENCY_MIN .. MaxReachable)
    => /\ solverOut.err = "ESP_OK"
       /\ WithinOneStep(solverIn, solverOut.clkdiv, solverOut.sw_fstep)

\* the search for 1000 Hz has returned divider 4 and step 41: 1000.98 Hz,
\* with a step size of 24.4 Hz
C19_Witness ==
  /\ Solved
  /\ solverIn = 1000
  /\ solverOut = [err |-> "ESP_OK", clkdiv |-> 4, sw_fstep |-> 41]
  /\ WithinOneStep(1000, 4, 41)

\* the voltage mv (in mV) clamped to 0 .. CHANNEL_VOLTAGE_MAX
Clamped(mv) ==
  IF mv < 0 THEN 0
  ELSE IF mv > CHANNEL_VOLTAGE_MAX_MV THEN CHANNEL_VOLTAGE_MAX_MV
  ELSE mv

\* round(volts / CHANNEL_VOLTAGE_MAX * 255) of the clamped voltage
Rounded(mv) ==
  (2 * Clamped(mv) * 255 + CHANNEL_VOLTAGE_MAX_MV) \div (2 * CHANNEL_VOLTAGE_MAX_MV)

\* the value that the call made last has passed to the driver's
\* dac_oneshot_output_voltage, -1 when it made no such call
ValueOutput ==
  IF Calls(last.calls, "dac_oneshot_output_voltage")
    THEN last.calls[Position(last.calls, "dac_oneshot_output_voltage")].val
    ELSE -1

\* C20: outputVoltage(float) outputs round(volts / CHANNEL_VOLTAGE_MAX * 255)
\* of the voltage clamped to 0 .. CHANNEL_VOLTAGE_MAX: for every voltage of
\* the grid this is the value cached and output, 0 for 0 V and below and
\* 255 for CHANNEL_VOLTAGE_MAX and above.
C20_FloatVoltageRounded ==
  last.op = "outputVoltageFloat"
    => /\ objs[last.id].m_oneshot_value = Rounded(last.args.mv)
       /\ ValueOutput = Rounded(last.args.mv)
       /\ last.args.mv <= 0 => ValueOutput = 0
       /\ last.args.mv >= CHANNEL_VOLTAGE_MAX_MV => ValueOutput = 255

\* the frequency of every pair of the search space
AchievedTable ==
  [div \in 0 .. CK8M_DIV_MAX |-> [fstep \in 1 .. SW_FSTEP_MAX |-> Achieved(div, fstep)]]

\* the deviation of the pair (div, fstep) from the target f
Deviation(f, div, fstep) == Abs(AchievedTable[div][fstep] - f)

\* the pair (d1, s1) comes before the pair (d2, s2) in the order of the
\* search: smaller divider first, then smaller step
Earlier(d1, s1, d2, s2) == d1 < d2 \/ (d1 = d2 /\ s1 < s2)

\* C22: whenever calcFrequSettings succeeds, no pair of the search space
\* deviates less from the target than the pair returned, and no pair that
\* deviates as much comes earlier in the order of the search (smaller
\* divider, then smaller step).
C22_FirstBestPairWins ==
  (Solved /\ solverOut.err = "ESP_OK")
    => \E best \in {Deviation(solverIn, solverOut.clkdiv, solverOut.sw_fstep)} :
         \A div \in 0 .. CK8M_DIV_MAX, fstep \in 1 .. SW_FSTEP_MAX :
           IF Earlier(div, fstep, solverOut.clkdiv, solverOut.sw_fstep)
             THEN Deviation(solverIn, div, fstep) > best
             ELSE Deviation(solverIn, div, fstep) >= best

\* the search has returned a pair that misses the target, and a pair with a
\* larger divider misses it by as much
C22_Witness ==
  /\ Solved
  /\ solverOut.err = "ESP_OK"
  /\ Deviation(solverIn, solverOut.clkdiv, solverOut.sw_fstep) > 0
  /\ \E div \in 0 .. CK8M_DIV_MAX, fstep \in 1 .. SW_FSTEP_MAX :
       /\ div > solverOut.clkdiv
       /\ Deviation(solverIn, div, fstep)
            = Deviation(solverIn, solverOut.clkdiv, solverOut.sw_fstep)

\* C24: after every sequence of calls on a controller, outputCW with any
\* scale and phase among them, the cached scale (getCwScale) is one of the
\* four attenuation levels and the cached phase (getCwPhase) one of the two
\* phases.
C24_CachedScalePhaseInDomain ==
  \A i \in ObjectIds :
    objs[i].live => (objs[i].atten \in AttenLevels /\ objs[i].phase \in PhaseValues)

\* C25: a call of a method on a controller, and its destruction, leave
\* every other object as it is: channel, handles, started flag, cached
\* static value, scale, phase, offset; the lock flag of another
\* controller's channel stays set.
C25_OtherControllerUnchanged ==
  [][StepOf(Methods \cup {"~DacESP32"})
       => \A j \in ObjectIds \ {last'.id} :
            /\ objs'[j] = objs[j]
            /\ (objs[j].live /\ objs[j].m_channel # DAC_CHAN_UNDEFINED)
                 => LockedNext(objs[j].m_channel)]_vars

\* outputCW with scale -18 dB was called on the controller of DAC_CHAN_1
\* while the controller of DAC_CHAN_0 is live and keeps its scale of 0 dB
C25_Witness ==
  /\ last.op = "outputCW"
  /\ last.ret = "ESP_OK"
  /\ \E a, b \in ObjectIds :
       /\ a # b
       /\ last.id = a
       /\ objs[a].live /\ objs[a].m_channel = DAC_CHAN_1
       /\ objs[a].atten = "DAC_COSINE_ATTEN_DB_18"
       /\ objs[a].is_started
       /\ objs[b].live /\ objs[b].m_channel = DAC_CHAN_0
       /\ objs[b].atten = "DAC_COSINE_ATTEN_DB_0"
       /\ objs[b].m_cosine_handle = DAC_COS_HANDLE_UNDEFINED

\* C26: a method returns the driver's error whenever a driver call it makes
\* fails: whenever the call made last had a failing driver call, its
\* result is that error.
C26_DriverErrorReturned ==
  last.args.fail # "none" => last.ret = DRIVER_ERROR

\* the cached static value and the handles of object o agree
ValueConsistent(o) ==
  /\ o.m_oneshot_value \in {-1} \cup (0 .. 255)
  /\ o.m_cosine_handle # DAC_COS_HANDLE_UNDEFINED => o.m_oneshot_value = -1
  /\ o.m_oneshot_handle # DAC_ONE_HANDLE_UNDEFINED => o.m_oneshot_value \in 0 .. 255

\* C27: before and after every call, m_oneshot_value is -1 or in 0..255,
\* it is -1 when a cosine channel is registered and in 0..255 when a
\* oneshot channel is registered; and enable() on a controller with a
\* cosine channel registered makes no call of the oneshot driver and
\* registers no oneshot channel.
C27_ValueAndHandlesConsistent ==
  /\ \A i \in ObjectIds : ValueConsistent(objs[i])
  /\ [][/\ \A i \in ObjectIds : ValueConsistent(objs'[i])
        /\ (StepOf({"enable"}) /\ Before.m_cosine_handle # DAC_COS_HANDLE_UNDEFINED)
             => /\ After.m_oneshot_handle = DAC_ONE_HANDLE_UNDEFINED
                /\ After.m_cosine_handle # DAC_COS_HANDLE_UNDEFINED
                /\ After.m_oneshot_value = -1
                /\ ~Calls(last'.calls, "dac_oneshot_new_channel")
                /\ ~Calls(last'.calls, "dac_oneshot_output_voltage")]_vars

\* enable() was called as the third call on a controller whose cosine
\* channel is registered: no oneshot channel is registered and no static
\* value is cached
C27_Witness ==
  /\ last.op = "enable"
  /\ nops = 3
  /\ objs[last.id].m_cosine_handle # DAC_COS_HANDLE_UNDEFINED
  /\ objs[last.id].m_oneshot_handle = DAC_ONE_HANDLE_UNDEFINED
  /\ objs[last.id].m_oneshot_value = -1
  /\ objs[last.id].freq_hz = 1000
  /\ objs[last.id].offset = -128

\* the values the divider register and the step register can take
DividerRange == 0 .. CK8M_DIV_MAX
StepRange == 1 .. SW_FSTEP_MAX

\* C23: the divider register holds a value in 0..CK8M_DIV_MAX and the step
\* register one in 1..SW_FSTEP_MAX once outputCW or setCwFrequency has
\* written them; whenever one of the two has called calcFrequSettings, the
\* result is ESP_OK with a divider and a step in these ranges, or it is a
\* failure, and it is a failure exactly when no pair of the search space
\* comes within the start deviation of the target, so that no pair was
\* accepted; after a success with the cosine channel registered the
\* registers hold the pair returned.
C23_DividerAndStepInRange ==
  /\ regDivSel \in DividerRange \cup {REG_RESET}
  /\ regFstep \in StepRange \cup {REG_RESET}
  /\ (last.op \in {"outputCW", "setCwFrequency"}
       /\ Calls(last.calls, "calcFrequSettings"))
      => \E s \in {solverMemo[last.args.frequency]} :
           /\ s.err \in {"ESP_OK", "ESP_ERR_NOT_SUPPORTED"}
           /\ s.err = "ESP_OK"
                => /\ s.clkdiv \in DividerRange
                   /\ s.sw_fstep \in StepRange
                   /\ last.ret = "ESP_OK"
                   /\ objs[last.id].m_cosine_handle # DAC_COS_HANDLE_UNDEFINED
                        => (regDivSel = s.clkdiv /\ regFstep = s.sw_fstep)
           /\ s.err # "ESP_OK"
                <=> \A a \in Achievable : Abs(a - last.args.frequency) >= DeltaStart
           /\ s.err # "ESP_OK" => last.ret = s.err

\* setCwFrequency(31250) has written divider 0 and the highest step, 256,
\* to the registers of a running cosine channel
C23_Witness ==
  /\ last.op = "setCwFrequency"
  /\ last.args.frequency = MaxReachable
  /\ last.ret = "ESP_OK"
  /\ objs[last.id].m_cosine_handle # DAC_COS_HANDLE_UNDEFINED
  /\ regDivSel = 0
  /\ regFstep = SW_FSTEP_MAX

\* no context is inside a constructor or a destructor
Quiescent == \A k \in Contexts : ctx[k].pc = "idle"

\* C21: however the reads and writes of two constructors, or of a
\* constructor and a destructor, interleave, once both have returned no
\* two live controllers are bound to the same channel and m_objectCount is
\* the number of live objects.
C21_ClaimIsAtomic ==
  Quiescent
    => /\ \A ch \in {DAC_CHAN_0, DAC_CHAN_1} : Cardinality(Holders(ch)) <= 1
       /\ m_objectCount = Cardinality(LiveIds)

====
